---- MODULE Spec2Model ----
(***************************************************************************)
(* State-machine model of the playground widgets of the portfolio site:    *)
(*   - BPlusTree      (src/components/playground/db/WALVisualizer.tsx,     *)
(*                     lines 455-965, the functional-update variant)       *)
(*   - WALVisualizer  (same file, lines 1-453)                             *)
(*   - LSMTree        (src/components/playground/db/LSMTree.tsx)           *)
(*   - TwoPhaseCommit (src/components/playground/algorithms/               *)
(*                     TwoPhaseCommit.tsx)                                 *)
(*   - RaftConsensus  (src/components/playground/algorithms/               *)
(*                     RaftConsensus.tsx)                                  *)
(*   - VectorClocks   (src/components/playground/distributed/              *)
(*                     VectorClocks.tsx)                                   *)
(*   - CircuitBreaker (src/components/playground/resilience/               *)
(*                     CircuitBreaker.tsx; CircuitBreakerWithMetrics.tsx   *)
(*                     has the same breaker and limiter)                   *)
(*   - the theme-color checker script (unnamed/part_014)                   *)
(* Every widget is a React component: its state is the useState cells, and *)
(* one action of the model is one event handler or one timer callback,     *)
(* run to completion (React batches the setState calls of one callback).   *)
(* A closure created by useCallback reads the state of the render that     *)
(* created it, so a chain of timers started by a click carries the values  *)
(* captured at the click ("cap..." fields).                                *)
(***************************************************************************)
EXTENDS Integers, Sequences, FiniteSets, TLC

VARIABLES
    \* ---- BPlusTree ----
    root,        \* useState<BPlusNode | null>: << >> is null, <<n>> a node
    nextAddr,    \* next fresh object identity (the JS heap's allocation)
    inserted,    \* history: the keys inserted since the last reset
    \* ---- WALVisualizer ----
    wal,            \* useState<LogEntry[]>
    transactions,   \* useState<Transaction[]>
    dataPages,      \* useState<DataPage[]>, as a function of the page key
    nextLsn,        \* useState(1)
    nextTxnId,      \* useState(1)
    isRecovering,   \* useState(false)
    checkpointLsn,  \* useState<number | null>: 0 is null
    demos,          \* the runDemo calls in progress (async chains)
    recoveries,     \* the simulateCrashRecovery calls in progress
    history,        \* history: the clicks and the chains that ran to their end
    \* ---- LSMTree ----
    memtable,    \* useState<MemTableEntry[]>
    sstables,    \* useState<SSTable[]>
    timers,      \* the pending setTimeout callbacks, in the order they were set
    clock,       \* Date.now(), counted in writes
    latest,      \* history: key -> the value of its last write since the reset
    loads,       \* history: the clicks on Load Sample
    \* ---- TwoPhaseCommit ----
    participants,      \* useState<Participant[]>
    coordinatorState,  \* useState<CoordinatorState>
    messages,          \* useState<Message[]>
    phase,             \* useState<'none' | 'prepare' | 'commit' | 'abort'>
    runs,              \* the startTransaction calls in progress (async chains)
    lastRun,           \* history: the run that ended last, and the state it left
    \* ---- RaftConsensus ----
    nodes,         \* useState<RaftNode[]>
    raftMessages,  \* useState<Message[]> (messages in the source)
    isRunning,     \* useState(false)
    speed,         \* useState(1), as twice the factor: 1 for 0.5x, 2 for 1x
    raftTimers,    \* the pending setTimeout callbacks of the handlers
    auto,          \* the timer or interval of the auto-run effect: << >> or <<t>>
    raftClicks,    \* history: the number of clicks on the controls
    \* ---- VectorClocks ----
    clocks,          \* useState<Record<string, VectorClock>>
    events,          \* useState<Event[]>
    vcMessages,      \* useState<Message[]> (messages in the source)
    selectedEvents,  \* useState<[number | null, number | null]>: -1 is null
    eventCounter,    \* useState(0)
    messageCounter,  \* useState(0)
    compared,        \* the arguments and the results of compareCausality calls
    \* ---- CircuitBreaker ----
    circuitState,  \* useState<CircuitState>('closed')
    failureCount,  \* useState(0)
    successCount,  \* useState(0)
    tokens,        \* useState(10)
    errorRate,     \* useState(30)
    stats,         \* useState<CircuitStats>
    lastRequest,   \* the last element of useState<Request[]>: << >> or <<r>>
    requestId,     \* requestIdRef.current
    autoMode,      \* useState(false)
    streak,        \* history: executed requests that failed in a row while closed
    trial,         \* history: requests that succeeded since the circuit half-opened
    \* ---- theme-color checker ----
    fs,          \* the files below the project root
    exitStatus,  \* the status of the last run on this file system; -1: not run
    allIssues    \* allIssues of the last run: the files with issues

btVars == <<root, nextAddr, inserted>>

walVars == <<wal, transactions, dataPages, nextLsn, nextTxnId, isRecovering,
             checkpointLsn, demos, recoveries, history>>

lsmVars == <<memtable, sstables, timers, clock, latest, loads>>

tpcVars == <<participants, coordinatorState, messages, phase, runs, lastRun>>

raftVars == <<nodes, raftMessages, isRunning, speed, raftTimers, auto, raftClicks>>

vcVars == <<clocks, events, vcMessages, selectedEvents, eventCounter,
            messageCounter, compared>>

cbVars == <<circuitState, failureCount, successCount, tokens, errorRate, stats,
            lastRequest, requestId, autoMode, streak, trial>>

tcVars == <<fs, exitStatus, allIssues>>

vars == <<btVars, walVars, lsmVars, tpcVars, raftVars, vcVars, cbVars, tcVars>>

nonBT == <<walVars, lsmVars, tpcVars, raftVars, vcVars, cbVars, tcVars>>

nonWAL == <<btVars, lsmVars, tpcVars, raftVars, vcVars, cbVars, tcVars>>

nonLSM == <<btVars, walVars, tpcVars, raftVars, vcVars, cbVars, tcVars>>

nonTPC == <<btVars, walVars, lsmVars, raftVars, vcVars, cbVars, tcVars>>

nonRaft == <<btVars, walVars, lsmVars, tpcVars, vcVars, cbVars, tcVars>>

nonVC == <<btVars, walVars, lsmVars, tpcVars, raftVars, cbVars, tcVars>>

nonCB == <<btVars, walVars, lsmVars, tpcVars, raftVars, vcVars, tcVars>>

nonTC == <<btVars, walVars, lsmVars, tpcVars, raftVars, vcVars, cbVars>>

(***************************************************************************)
(* Sequence helpers (Array.prototype.slice / splice / findIndex / sort).   *)
(***************************************************************************)
\* seq.slice(from, to) with 0-based from, exclusive to (JS), on 1-based seqs
Slice(seq, from, to) == SubSeq(seq, from + 1, to)

\* copy.splice(idx, 0, x) with 0-based idx
SpliceIn(seq, idx, x) == SubSeq(seq, 1, idx) \o <<x>> \o SubSeq(seq, idx + 1, Len(seq))

\* keys.findIndex(k => key < k); JS -1 is mapped by the caller
FindIndexGreater(keys, key) ==
    IF \E i \in 1..Len(keys) : key < keys[i]
    THEN (CHOOSE i \in 1..Len(keys) :
             /\ key < keys[i]
             /\ \A j \in 1..(i - 1) : ~(key < keys[j])) - 1
    ELSE -1

\* [...keys, key].sort((a, b) => a - b) for an already sorted keys: the sort
\* is stable, so the appended key lands after the keys that are <= key
RECURSIVE SortNumeric(_)
SortNumeric(seq) ==
    IF Len(seq) <= 1 THEN seq
    ELSE LET rest == SortNumeric(SubSeq(seq, 1, Len(seq) - 1))
             x    == seq[Len(seq)]
             n    == Cardinality({i \in 1..Len(rest) : rest[i] <= x})
         IN  SubSeq(rest, 1, n) \o <<x>> \o SubSeq(rest, n + 1, Len(rest))

(***************************************************************************)
(* BPlusTree                                                               *)
(***************************************************************************)
MAX_KEYS == 3

\* The keys the user types into the insert form (SpecBPlus)
BTKeys == {5, 10, 15, 20}

\* Bound on the number of inserts between two resets (SpecBPlus)
MaxInserts == 7

\* Fewer keys, more inserts: the root becomes an internal node that splits
\* (SpecBPlusDeep); ten inserts are the least that split an internal node
DeepKeys == {5, 10, 15}

MaxDeepInserts == 10

NoNode == << >>

\* createLeafNode(keys): a fresh object; its id string is unique per creation
createLeafNode(keys, a) ==
    [addr |-> a, id |-> a, keys |-> keys, children |-> << >>,
     isLeaf |-> TRUE, next |-> NoNode]

\* createInternalNode(keys, children)
createInternalNode(keys, children, a) ==
    [addr |-> a, id |-> a, keys |-> keys, children |-> children,
     isLeaf |-> FALSE, next |-> NoNode]

RECURSIVE NodeCount(_)
NodeCount(node) ==
    LET RECURSIVE Sum(_)
        Sum(i) == IF i = 0 THEN 0 ELSE NodeCount(node.children[i]) + Sum(i - 1)
    IN  1 + Sum(Len(node.children))

\* cloneNode(node): { ...node, keys: [...], children: children.map(cloneNode) }.
\* The spread copies id, isLeaf and next as they are: next still refers to
\* the object of the tree that was cloned.  Every clone is a fresh object;
\* the clone of the subtree takes the addresses a .. a + NodeCount - 1.
RECURSIVE cloneNode(_, _)
cloneNode(node, a) ==
    LET RECURSIVE Offset(_)
        Offset(i) == IF i = 1 THEN a + 1
                     ELSE Offset(i - 1) + NodeCount(node.children[i - 1])
    IN  [node EXCEPT
            !.addr = a,
            !.children = [i \in 1..Len(node.children) |->
                             cloneNode(node.children[i], Offset(i))]]

FitsInNodeLoose(newKeys) == Len(newKeys) <= MAX_KEYS + 1

\* Line 518 / 550: the node takes the keys without a split
FitsInNode(newKeys) == Len(newKeys) <= MAX_KEYS

LeafMidOffByOne(newKeys) == Len(newKeys) \div 2 + 1

\* Line 523: Math.ceil(newKeys.length / 2)
LeafMid(newKeys) == (Len(newKeys) + 1) \div 2

\* Line 556: Math.floor(newKeys.length / 2)
InternalMid(newKeys) == Len(newKeys) \div 2

\* Line 537-538: the child to descend into
ChildIndex(keys, key) ==
    IF FindIndexGreater(keys, key) = -1 THEN Len(keys)
    ELSE FindIndexGreater(keys, key)

\* insertRecursive(node, key) mutates node in place and returns
\* { newNode, promotedKey }.  Here: node is the mutated node, newNode is
\* << >> for null, used counts the objects created (addresses a, a+1, ...).
RECURSIVE insertRecursive(_, _, _)
insertRecursive(node, key, a) ==
    IF node.isLeaf
    THEN LET newKeys == SortNumeric(Append(node.keys, key))
         IN  IF FitsInNode(newKeys)
             THEN [node |-> [node EXCEPT !.keys = newKeys],
                   newNode |-> NoNode, promotedKey |-> 0, used |-> 0]
             ELSE LET mid       == LeafMid(newKeys)
                      leftKeys  == Slice(newKeys, 0, mid)
                      rightKeys == Slice(newKeys, mid, Len(newKeys))
                      newLeaf   == [createLeafNode(rightKeys, a)
                                       EXCEPT !.next = node.next]
                  IN  [node |-> [node EXCEPT !.keys = leftKeys,
                                             !.next = <<newLeaf>>],
                       newNode |-> <<newLeaf>>,
                       promotedKey |-> rightKeys[1], used |-> 1]
    ELSE LET childIndex == ChildIndex(node.keys, key)
             result     == insertRecursive(node.children[childIndex + 1], key, a)
             \* the child was mutated in place
             mutated    == [node EXCEPT !.children[childIndex + 1] = result.node]
         IN  IF result.newNode # NoNode
             THEN LET newKeys     == SpliceIn(node.keys, childIndex, result.promotedKey)
                      newChildren == SpliceIn(mutated.children, childIndex + 1,
                                              result.newNode[1])
                  IN  IF FitsInNode(newKeys)
                      THEN [node |-> [mutated EXCEPT !.keys = newKeys,
                                                     !.children = newChildren],
                            newNode |-> NoNode, promotedKey |-> 0,
                            used |-> result.used]
                      ELSE LET mid         == InternalMid(newKeys)
                               leftKeys    == Slice(newKeys, 0, mid)
                               rightKeys   == Slice(newKeys, mid + 1, Len(newKeys))
                               promotedKey == newKeys[mid + 1]
                               newInternal ==
                                   createInternalNode(rightKeys,
                                       Slice(newChildren, mid + 1, Len(newChildren)),
                                       a + result.used)
                           IN  [node |-> [mutated EXCEPT
                                             !.keys = leftKeys,
                                             !.children = Slice(newChildren, 0, mid + 1)],
                                newNode |-> <<newInternal>>,
                                promotedKey |-> promotedKey,
                                used |-> result.used + 1]
             ELSE [node |-> mutated, newNode |-> NoNode, promotedKey |-> 0,
                   used |-> result.used]

\* The new root adopts the children of the old root instead of the old root
NewRootFlat(result, a) ==
    IF result.newNode # NoNode
    THEN createInternalNode(<<result.promotedKey>>,
             IF result.node.isLeaf
             THEN <<result.node, result.newNode[1]>>
             ELSE Append(result.node.children, result.newNode[1]), a)
    ELSE result.node

\* Line 579-585: a split of the root creates a new root above it
NewRoot(result, a) ==
    IF result.newNode # NoNode
    THEN createInternalNode(<<result.promotedKey>>,
                            <<result.node, result.newNode[1]>>, a)
    ELSE result.node

\* insert(key): the updater passed to setRoot
insert(key) ==
    /\ IF root = NoNode
       THEN /\ root' = <<createLeafNode(<<key>>, nextAddr)>>
            /\ nextAddr' = nextAddr + 1
       ELSE LET n      == NodeCount(root[1])
                cloned == cloneNode(root[1], nextAddr)
                result == insertRecursive(cloned, key, nextAddr + n)
            IN  /\ root' = <<NewRoot(result, nextAddr + n + result.used)>>
                /\ nextAddr' = nextAddr + n + result.used + 1
    /\ inserted' = Append(inserted, key)
    /\ UNCHANGED nonBT

\* reset(): setRoot(null); the objects of the old tree become garbage
BPlusReset ==
    /\ root # NoNode
    /\ root' = NoNode
    /\ nextAddr' = 1
    /\ inserted' = << >>
    /\ UNCHANGED nonBT

InitBPlus ==
    /\ root = NoNode
    /\ nextAddr = 1
    /\ inserted = << >>

(***************************************************************************)
(* WALVisualizer                                                           *)
(*                                                                         *)
(* The buttons are Run Demo Scenario, Simulate Crash and Reset.  runDemo   *)
(* and simulateCrashRecovery are async functions: a click starts a chain   *)
(* of timers, and the code between two awaits is one step.  Time is        *)
(* counted in units of 100 ms, which divides every delay of the widget: a  *)
(* pending step carries the time left until its timer is due, Tick lets    *)
(* 100 ms pass, and the steps and clicks of one instant run in any order.  *)
(***************************************************************************)
PageKeys == {"balance:A", "balance:B", "balance:C"}

\* Bound on the number of clicks in one behaviour
MaxClicks == 2

\* Lines 31-35: the data pages after construction and after a reset.  The
\* values are the numeric strings of the code, as numbers.
InitialPages ==
    [k \in PageKeys |->
        [value |-> CASE k = "balance:A" -> 1000
                     [] k = "balance:B" -> 500
                     [] k = "balance:C" -> 750,
         dirty |-> FALSE, lsn |-> 0]]

\* Lines 216-239: the calls of runDemo, each after its await (in 100 ms)
DemoScript ==
    << [delay |-> 5, op |-> "begin",      key |-> "",          value |-> 0],
       [delay |-> 4, op |-> "write",      key |-> "balance:A", value |-> 900],
       [delay |-> 4, op |-> "write",      key |-> "balance:B", value |-> 600],
       [delay |-> 4, op |-> "commit",     key |-> "",          value |-> 0],
       [delay |-> 6, op |-> "checkpoint", key |-> "",          value |-> 0],
       [delay |-> 6, op |-> "begin",      key |-> "",          value |-> 0],
       [delay |-> 4, op |-> "write",      key |-> "balance:B", value |-> 400],
       [delay |-> 4, op |-> "write",      key |-> "balance:C", value |-> 950] >>

\* Line 159: the await of 1000 ms before REDO
CrashDelay == 10

\* Line 168: the await of 300 ms before each REDO
RedoDelay == 3

\* Line 176: the await of 500 ms between REDO and UNDO
UndoPause == 5

\* Line 185: the await of 300 ms before each UNDO
UndoDelay == 3

RemoveAt(seq, i) == SubSeq(seq, 1, i - 1) \o SubSeq(seq, i + 1, Len(seq))

\* A LogEntry; key "" and the values 0 stand for the absent optional fields
LogEntry(lsn, type, txnId, key, oldValue, newValue) ==
    [lsn |-> lsn, type |-> type, txnId |-> txnId, key |-> key,
     oldValue |-> oldValue, newValue |-> newValue]

\* The entry writeData logs with the old and the new value exchanged
WriteEntrySwapped(lsn, txnId, key, oldValue, newValue) ==
    LogEntry(lsn, "WRITE", txnId, key, newValue, oldValue)

\* Lines 81-88: the entry writeData passes to appendWal
WriteEntry(lsn, txnId, key, oldValue, newValue) ==
    LogEntry(lsn, "WRITE", txnId, key, oldValue, newValue)

\* appendWal(entry): lsn is the nextLsn of the render that made the closure
appendWal(entry) ==
    /\ wal' = Append(wal, entry)
    /\ nextLsn' = nextLsn + 1

\* beginTransaction(), called by chain d of runDemo: txnId is the nextTxnId
\* of the render that made the closure
beginTransaction(d) ==
    LET txnId == d.capNextTxnId
        entry == LogEntry(d.capNextLsn, "BEGIN", txnId, "", 0, 0)
    IN  /\ nextTxnId' = nextTxnId + 1
        /\ appendWal(entry)
        /\ transactions' = Append(transactions,
               [id |-> txnId, status |-> "active",
                operations |-> <<[entry EXCEPT !.lsn = d.capNextLsn - 1]>>])
        /\ UNCHANGED <<dataPages, checkpointLsn>>

\* writeData(txnId, key, newValue), called by chain d: page is looked up in
\* the dataPages of the render that made the closure
writeData(d, txnId, key, newValue) ==
    LET oldValue == d.capDataPages[key].value
        entry    == WriteEntry(d.capNextLsn, txnId, key, oldValue, newValue)
    IN  /\ appendWal(entry)
        /\ dataPages' = [dataPages EXCEPT ![key] =
               [value |-> newValue, dirty |-> TRUE, lsn |-> d.capNextLsn - 1]]
        /\ transactions' = [i \in 1..Len(transactions) |->
               IF transactions[i].id = txnId
               THEN [transactions[i] EXCEPT !.operations =
                        Append(@, [entry EXCEPT !.lsn = d.capNextLsn - 1])]
               ELSE transactions[i]]
        /\ UNCHANGED <<nextTxnId, checkpointLsn>>

\* commitTransaction(txnId)
commitTransaction(d, txnId) ==
    /\ appendWal(LogEntry(d.capNextLsn, "COMMIT", txnId, "", 0, 0))
    /\ transactions' = [i \in 1..Len(transactions) |->
           IF transactions[i].id = txnId
           THEN [transactions[i] EXCEPT !.status = "committed"]
           ELSE transactions[i]]
    /\ dataPages' = [k \in PageKeys |-> [dataPages[k] EXCEPT !.dirty = FALSE]]
    /\ UNCHANGED <<nextTxnId, checkpointLsn>>

\* checkpoint()
checkpoint(d) ==
    /\ appendWal(LogEntry(d.capNextLsn, "CHECKPOINT", 0, "", 0, 0))
    /\ checkpointLsn' = d.capNextLsn
    /\ dataPages' = [k \in PageKeys |-> [dataPages[k] EXCEPT !.dirty = FALSE]]
    /\ UNCHANGED <<nextTxnId, transactions>>

\* Lines 204-214 and 246-256: the state both runDemo and reset put back
ClearState ==
    /\ wal' = << >>
    /\ transactions' = << >>
    /\ dataPages' = InitialPages
    /\ nextLsn' = 1
    /\ nextTxnId' = 1
    /\ checkpointLsn' = 0

\* The clicks made so far
Clicks == Len(SelectSeq(history, LAMBDA e : e \in {"runDemo", "crash", "reset"}))

\* Click on Run Demo Scenario: lines 203-216, up to the first await.  The
\* closures the chain calls are those of the render of the click.
RunDemoClick ==
    /\ Clicks < MaxClicks
    /\ ClearState
    /\ demos' = Append(demos,
           [pc |-> 1, due |-> DemoScript[1].delay, capNextLsn |-> nextLsn, capNextTxnId |-> nextTxnId,
            capDataPages |-> dataPages, txn |-> 0])
    /\ history' = Append(history, "runDemo")
    /\ UNCHANGED <<isRecovering, recoveries>>
    /\ UNCHANGED nonWAL

\* One step of chain i of runDemo: the call after the await (lines 219-241)
DemoStep(i) ==
    LET d    == demos[i]
        step == DemoScript[d.pc]
        \* t1 / t2: the value the last beginTransaction returned
        txn  == IF step.op = "begin" THEN d.capNextTxnId ELSE d.txn
    IN  /\ d.due = 0
        /\ CASE step.op = "begin"      -> beginTransaction(d)
              [] step.op = "write"      -> writeData(d, txn, step.key, step.value)
              [] step.op = "commit"     -> commitTransaction(d, txn)
              [] step.op = "checkpoint" -> checkpoint(d)
        /\ IF d.pc = Len(DemoScript)
           THEN /\ demos' = RemoveAt(demos, i)
                /\ history' = Append(history, "demoDone")
           ELSE /\ demos' = [demos EXCEPT ![i].pc = d.pc + 1, ![i].txn = txn,
                                           ![i].due = DemoScript[d.pc + 1].delay]
                /\ UNCHANGED history
        /\ UNCHANGED <<isRecovering, recoveries>>
        /\ UNCHANGED nonWAL

\* Line 162: const startLsn = checkpointLsn || 1
RedoStart(ckpt) == IF ckpt = 0 THEN 1 ELSE ckpt

Indices(seq) == [i \in 1..Len(seq) |-> i]

Reverse(seq) == [i \in 1..Len(seq) |-> seq[Len(seq) + 1 - i]]

\* Lines 165-167: the positions in the captured wal of the entries REDO
\* re-applies: wal.filter(e => e.lsn >= startLsn), then the test of line 167
RedoList(capWal, ckpt) ==
    SelectSeq(Indices(capWal), LAMBDA i :
        /\ capWal[i].lsn >= RedoStart(ckpt)
        /\ capWal[i].type = "WRITE"
        /\ capWal[i].key # ""
        /\ capWal[i].newValue # 0)

\* Line 180: transactions.filter(t => t.status === 'active')
Uncommitted(capTransactions) ==
    SelectSeq(capTransactions, LAMBDA t : t.status = "active")

\* Line 182-184: the operations UNDO rolls back, last one first
WriteOps(txn) ==
    Reverse(SelectSeq(txn.operations, LAMBDA op : op.type = "WRITE" /\ op.key # ""))

\* Lines 181-195, between two awaits: the transactions from position ti on
\* that have nothing to roll back are marked aborted at once; ti is the
\* first one with an operation to await, or past the end
RECURSIVE UndoAdvance(_, _)
UndoAdvance(U, ti) ==
    IF ti > Len(U) \/ WriteOps(U[ti]) # << >>
    THEN [ti |-> ti, aborted |-> {}]
    ELSE LET rest == UndoAdvance(U, ti + 1)
         IN  [ti |-> rest.ti, aborted |-> rest.aborted \cup {U[ti].id}]

\* Lines 192-194: setTransactions(... t.id === txn.id ? aborted : t)
MarkAborted(ids) ==
    [i \in 1..Len(transactions) |->
        IF transactions[i].id \in ids
        THEN [transactions[i] EXCEPT !.status = "aborted"]
        ELSE transactions[i]]

\* Click on Simulate Crash (disabled while recovering or with an empty log):
\* lines 155-159.  wal, transactions and checkpointLsn are those of the
\* render of the click.
CrashClick ==
    /\ Clicks < MaxClicks
    /\ ~isRecovering
    /\ wal # << >>
    /\ isRecovering' = TRUE
    /\ recoveries' = Append(recoveries,
           [phase |-> "crash", due |-> CrashDelay, capWal |-> wal, capTransactions |-> transactions,
            capCheckpointLsn |-> checkpointLsn, i |-> 1, ti |-> 1, oi |-> 1,
            redone |-> << >>])
    /\ history' = Append(history, "crash")
    /\ UNCHANGED <<wal, transactions, dataPages, nextLsn, nextTxnId,
                   checkpointLsn, demos>>
    /\ UNCHANGED nonWAL

\* Lines 197-198, the end of chain j
RecoveryDone(j) ==
    /\ isRecovering' = FALSE
    /\ recoveries' = RemoveAt(recoveries, j)
    /\ history' = Append(history, "recovered")

\* Lines 161-168: after the first await, up to the await of the first REDO
RecoveryBegin(j) ==
    LET r == recoveries[j]
    IN  /\ r.phase = "crash"
        /\ r.due = 0
        /\ recoveries' =
               IF RedoList(r.capWal, r.capCheckpointLsn) = << >>
               THEN [recoveries EXCEPT ![j].phase = "pause", ![j].due = UndoPause]
               ELSE [recoveries EXCEPT ![j].phase = "redo", ![j].due = RedoDelay]
        /\ UNCHANGED <<wal, transactions, dataPages, nextLsn, nextTxnId,
                       isRecovering, checkpointLsn, demos, history>>
        /\ UNCHANGED nonWAL

\* Lines 169-172: one entry is re-applied
RecoveryRedo(j) ==
    LET r     == recoveries[j]
        list  == RedoList(r.capWal, r.capCheckpointLsn)
        entry == r.capWal[list[r.i]]
    IN  /\ r.phase = "redo"
        /\ r.due = 0
        /\ dataPages' = [dataPages EXCEPT
               ![entry.key].value = entry.newValue,
               ![entry.key].lsn = entry.lsn]
        /\ recoveries' = [recoveries EXCEPT
               ![j].redone = Append(@, list[r.i]),
               ![j].i = r.i + 1,
               ![j].phase = IF r.i = Len(list) THEN "pause" ELSE "redo",
               ![j].due = IF r.i = Len(list) THEN UndoPause ELSE RedoDelay]
        /\ UNCHANGED <<wal, transactions, nextLsn, nextTxnId, isRecovering,
                       checkpointLsn, demos, history>>
        /\ UNCHANGED nonWAL

\* Lines 178-185: after the await of 500 ms, up to the await of the first UNDO
RecoveryUndoBegin(j) ==
    LET r   == recoveries[j]
        U   == Uncommitted(r.capTransactions)
        adv == UndoAdvance(U, 1)
    IN  /\ r.phase = "pause"
        /\ r.due = 0
        /\ transactions' = MarkAborted(adv.aborted)
        /\ IF adv.ti > Len(U)
           THEN RecoveryDone(j)
           ELSE /\ recoveries' = [recoveries EXCEPT
                       ![j].phase = "undo", ![j].ti = adv.ti, ![j].oi = 1,
                       ![j].due = UndoDelay]
                /\ UNCHANGED <<isRecovering, history>>
        /\ UNCHANGED <<wal, dataPages, nextLsn, nextTxnId, checkpointLsn, demos>>
        /\ UNCHANGED nonWAL

\* Lines 186-195: one operation is rolled back; after the last one of a
\* transaction the transaction is marked aborted
RecoveryUndo(j) ==
    LET r   == recoveries[j]
        U   == Uncommitted(r.capTransactions)
        ops == WriteOps(U[r.ti])
        op  == ops[r.oi]
        adv == UndoAdvance(U, r.ti + 1)
    IN  /\ r.phase = "undo"
        /\ r.due = 0
        /\ dataPages' = [dataPages EXCEPT ![op.key].value = op.oldValue]
        /\ IF r.oi < Len(ops)
           THEN /\ recoveries' = [recoveries EXCEPT ![j].oi = r.oi + 1,
                                                     ![j].due = UndoDelay]
                /\ UNCHANGED <<transactions, isRecovering, history>>
           ELSE /\ transactions' = MarkAborted({U[r.ti].id} \cup adv.aborted)
                /\ IF adv.ti > Len(U)
                   THEN RecoveryDone(j)
                   ELSE /\ recoveries' = [recoveries EXCEPT
                               ![j].ti = adv.ti, ![j].oi = 1,
                               ![j].due = UndoDelay]
                        /\ UNCHANGED <<isRecovering, history>>
        /\ UNCHANGED <<wal, nextLsn, nextTxnId, checkpointLsn, demos>>
        /\ UNCHANGED nonWAL

\* Click on Reset: lines 245-258.  No timer is cleared: the chains go on.
WalReset ==
    /\ Clicks < MaxClicks
    /\ ClearState
    /\ isRecovering' = FALSE
    /\ history' = Append(history, "reset")
    /\ UNCHANGED <<demos, recoveries>>
    /\ UNCHANGED nonWAL

\* 100 ms pass: no timer of the widget is due, and one at least is pending
WalTick ==
    /\ demos # << >> \/ recoveries # << >>
    /\ \A i \in 1..Len(demos) : demos[i].due > 0
    /\ \A j \in 1..Len(recoveries) : recoveries[j].due > 0
    /\ demos' = [i \in 1..Len(demos) |-> [demos[i] EXCEPT !.due = @ - 1]]
    /\ recoveries' = [j \in 1..Len(recoveries) |->
                         [recoveries[j] EXCEPT !.due = @ - 1]]
    /\ UNCHANGED <<wal, transactions, dataPages, nextLsn, nextTxnId,
                   isRecovering, checkpointLsn, history>>
    /\ UNCHANGED nonWAL

InitWAL ==
    /\ wal = << >>
    /\ transactions = << >>
    /\ dataPages = InitialPages
    /\ nextLsn = 1
    /\ nextTxnId = 1
    /\ isRecovering = FALSE
    /\ checkpointLsn = 0
    /\ demos = << >>
    /\ recoveries = << >>
    /\ history = << >>

(***************************************************************************)
(* LSMTree                                                                 *)
(*                                                                         *)
(* The keys are numbers that stand for the key strings in the order of     *)
(* localeCompare (for the sample data: 1..3 are order:1..order:3 and 4..7  *)
(* are user:1..user:4).  A timestamp is Date.now() of the write: the model *)
(* counts the writes, so a later write has a larger timestamp.  A pending  *)
(* setTimeout is a record of timers with the time left in units of 100 ms  *)
(* and the values its closure captured.  The cells that only drive the     *)
(* display (log, isCompacting, highlightedSSTable, writeCount, and the id, *)
(* size, minKey and maxKey of an SSTable) are left out.                    *)
(***************************************************************************)
MAX_MEMTABLE_SIZE == 4

LEVEL_MULTIPLIER == 4

\* The keys and values typed into the write form (SpecLSM)
FormKeys == 1..4

FormValues == {"a", "b"}

\* Bound on the number of writes made through the form (SpecLSM)
MaxWrites == 5

\* Bound on the number of clicks on Load Sample (SpecSample); four runs of
\* the sample are the least that fill level 1
MaxLoads == 4

\* Line 145: setTimeout(() => flushMemtable(newMemtable), 500)
FlushDelay == 5

\* Lines 95 and 121: setTimeout(() => compact(...), 500)
CompactDelay == 5

\* Line 97: setTimeout(..., 1000)
CascadeDelay == 10

\* Line 210: setTimeout(() => write(s.key, s.value), i * 400)
SampleSpacing == 4

\* Lines 198-207: the sample data
Samples ==
    << [key |-> 4, value |-> "Alice"],
       [key |-> 5, value |-> "Bob"],
       [key |-> 6, value |-> "Charlie"],
       [key |-> 1, value |-> "Pizza"],
       [key |-> 2, value |-> "Burger"],
       [key |-> 4, value |-> "Alicia"],
       [key |-> 3, value |-> "Sushi"],
       [key |-> 7, value |-> "Diana"] >>

NoValue == "not found"

Timer(kind, due, key, value, entries, level, tables) ==
    [kind |-> kind, due |-> due, key |-> key, value |-> value,
     entries |-> entries, level |-> level, tables |-> tables]

\* tables.filter(t => t.level === level)
TablesAt(tables, level) == SelectSeq(tables, LAMBDA t : t.level = level)

\* Lines 37-40
getMaxTablesAtLevel(level) == IF level = 0 THEN 2 ELSE LEVEL_MULTIPLIER ^ level

\* Sorted by key: entries.sort((a, b) => a.key.localeCompare(b.key)) on
\* entries with distinct keys
RECURSIVE SortByKey(_)
SortByKey(set) ==
    IF set = {} THEN << >>
    ELSE LET e == CHOOSE x \in set : \A y \in set : x.key <= y.key
         IN  <<e>> \o SortByKey(set \ {e})

Range(seq) == {seq[i] : i \in 1..Len(seq)}

\* Lines 57-69: the entries of the tables, sorted by timestamp, put into a
\* Map by key (a later timestamp replaces an earlier one), sorted by key
MergeEntries(tablesAtLevel) ==
    LET all == UNION {Range(tablesAtLevel[i].entries) : i \in 1..Len(tablesAtLevel)}
    IN  SortByKey({e \in all : \A f \in all : f.key = e.key => f.timestamp <= e.timestamp})

\* Line 143
MemtableFull(newMemtable) == Len(newMemtable) >= MAX_MEMTABLE_SIZE

\* Compaction of level 0 is asked for only above two tables
L0NeedsCompactionLate(updatedTables) == Len(TablesAt(updatedTables, 0)) > 2

\* Lines 119-120
L0NeedsCompaction(updatedTables) == Len(TablesAt(updatedTables, 0)) >= 2

\* read(key): lines 155-178; the sort by level is stable
RECURSIVE FirstWith(_, _)
FirstWith(tables, key) ==
    IF tables = << >> THEN NoValue
    ELSE IF \E e \in Range(Head(tables).entries) : e.key = key
         THEN (CHOOSE e \in Range(Head(tables).entries) : e.key = key).value
         ELSE FirstWith(Tail(tables), key)

RECURSIVE SortByLevel(_)
SortByLevel(tables) ==
    IF tables = << >> THEN << >>
    ELSE LET m == CHOOSE l \in {tables[i].level : i \in 1..Len(tables)} :
                     \A i \in 1..Len(tables) : l <= tables[i].level
         IN  TablesAt(tables, m) \o
             SortByLevel(SelectSeq(tables, LAMBDA t : t.level # m))

read(key) ==
    IF \E e \in Range(memtable) : e.key = key
    THEN (CHOOSE e \in Range(memtable) : e.key = key).value
    ELSE FirstWith(SortByLevel(sstables), key)

\* write(key, value): lines 128-152.  rest are the timers that stay pending
write(key, value, rest) ==
    LET entry       == [key |-> key, value |-> value, timestamp |-> clock]
        filtered    == {e \in Range(memtable) : e.key # key}
        newMemtable == SortByKey(filtered \cup {entry})
    IN  /\ memtable' = newMemtable
        /\ timers' = IF MemtableFull(newMemtable)
                     THEN Append(rest, Timer("flush", FlushDelay, 0, "",
                                             newMemtable, 0, << >>))
                     ELSE rest
        /\ clock' = clock + 1
        /\ latest' = [k \in DOMAIN latest \cup {key} |->
                         IF k = key THEN value ELSE latest[k]]
        /\ UNCHANGED <<sstables, loads>>
        /\ UNCHANGED nonLSM

\* handleWrite: the write form is submitted
FormWrite(key, value) == write(key, value, timers)

\* loadSampleData(): lines 197-212
LoadSampleClick ==
    /\ timers' = timers \o
           [i \in 1..Len(Samples) |->
               Timer("sample", (i - 1) * SampleSpacing, Samples[i].key,
                     Samples[i].value, << >>, 0, << >>)]
    /\ loads' = loads + 1
    /\ UNCHANGED <<memtable, sstables, clock, latest>>
    /\ UNCHANGED nonLSM

\* A timer of loadSampleData is due: write(s.key, s.value)
SampleFire(i) ==
    /\ timers[i].kind = "sample"
    /\ timers[i].due = 0
    /\ write(timers[i].key, timers[i].value, RemoveAt(timers, i))

\* A flush timer is due: flushMemtable(entries), lines 101-125, with the
\* memtable that write captured when it set the timer
FlushFire(i) ==
    LET entries       == timers[i].entries
        newSSTable    == [level |-> 0, entries |-> entries]
        updatedTables == Append(sstables, newSSTable)
        rest          == RemoveAt(timers, i)
    IN  /\ timers[i].kind = "flush"
        /\ timers[i].due = 0
        /\ IF entries = << >>
           THEN UNCHANGED <<memtable, sstables>> /\ timers' = rest
           ELSE /\ memtable' = << >>
                /\ sstables' = updatedTables
                /\ timers' = IF L0NeedsCompaction(updatedTables)
                             THEN Append(rest, Timer("compact", CompactDelay, 0, "",
                                                     << >>, 0, updatedTables))
                             ELSE rest
        /\ UNCHANGED <<clock, latest, loads>>
        /\ UNCHANGED nonLSM

\* A compaction timer is due: compact(level, tables), lines 43-98, with the
\* tables its caller captured
CompactFire(i) ==
    LET level         == timers[i].level
        tables        == timers[i].tables
        tablesAtLevel == TablesAt(tables, level)
        otherTables   == SelectSeq(tables, LAMBDA t : t.level # level)
        minTables     == IF level = 0 THEN 2 ELSE getMaxTablesAtLevel(level)
        newSSTable    == [level |-> level + 1, entries |-> MergeEntries(tablesAtLevel)]
        newTables     == Append(otherTables, newSSTable)
        rest          == RemoveAt(timers, i)
    IN  /\ timers[i].kind = "compact"
        /\ timers[i].due = 0
        /\ IF Len(tablesAtLevel) < minTables
           THEN UNCHANGED sstables /\ timers' = rest
           ELSE /\ sstables' = newTables
                /\ timers' = Append(rest, Timer("cascade", CascadeDelay, 0, "",
                                                << >>, level, newTables))
        /\ UNCHANGED <<memtable, clock, latest, loads>>
        /\ UNCHANGED nonLSM

\* The timer of lines 87-97 is due: the next level is compacted when the
\* tables the compaction stored hold the maximum there
CascadeFire(i) ==
    LET level     == timers[i].level
        newTables == timers[i].tables
        rest      == RemoveAt(timers, i)
    IN  /\ timers[i].kind = "cascade"
        /\ timers[i].due = 0
        /\ timers' = IF Len(TablesAt(newTables, level + 1))
                           >= getMaxTablesAtLevel(level + 1)
                     THEN Append(rest, Timer("compact", CompactDelay, 0, "",
                                             << >>, level + 1, newTables))
                     ELSE rest
        /\ UNCHANGED <<memtable, sstables, clock, latest, loads>>
        /\ UNCHANGED nonLSM

\* reset(): lines 215-222.  No timer is cleared.
LsmReset ==
    /\ memtable # << >> \/ sstables # << >>
    /\ memtable' = << >>
    /\ sstables' = << >>
    /\ latest' = << >>
    /\ UNCHANGED <<timers, clock, loads>>
    /\ UNCHANGED nonLSM

\* 100 ms pass: no timer of the widget is due, and one at least is pending
LsmTick ==
    /\ timers # << >>
    /\ \A i \in 1..Len(timers) : timers[i].due > 0
    /\ timers' = [i \in 1..Len(timers) |-> [timers[i] EXCEPT !.due = @ - 1]]
    /\ UNCHANGED <<memtable, sstables, clock, latest, loads>>
    /\ UNCHANGED nonLSM

InitLSM ==
    /\ memtable = << >>
    /\ sstables = << >>
    /\ timers = << >>
    /\ clock = 1
    /\ latest = << >>
    /\ loads = 0

(***************************************************************************)
(* TwoPhaseCommit.  Time is counted in units of 100 ms.  The log cell is   *)
(* written by addLog only and never read by a handler: it is left out.     *)
(***************************************************************************)
ParticipantIds == <<"P1", "P2", "P3", "P4">>

\* The participants whose vote the user toggles
ToggleIds == {"P2"}

\* Bound on the number of startTransaction calls in progress at once
MaxRuns == 2

\* Lines 79, 115, 132, 164: the awaits of 1000 ms
MessageDelay == 10

\* Line 111: the await of 300 ms after each vote
VoteDelay == 3

\* Line 148: the await of 800 ms for the ACKs
AckDelay == 8

\* Lines 39-44 and 177-182
InitialParticipants ==
    [i \in 1..Len(ParticipantIds) |->
        [id |-> ParticipantIds[i], state |-> "idle", willVoteYes |-> TRUE]]

NoRun == << >>

\* A message of the coordinator to p (lines 70-75, 124-129, 156-161)
FromCoordinator(type, p) ==
    [id |-> <<type, p.id>>, from |-> "C", to |-> p.id, type |-> type]

\* A message of p to the coordinator (lines 91-96, 102-107, 141-146)
ToCoordinator(idPrefix, type, p) ==
    [id |-> <<idPrefix, p.id>>, from |-> p.id, to |-> "C", type |-> type]

\* participants.map(p => message), over the participants of the closure
Broadcast(type, cap) == [i \in 1..Len(cap) |-> FromCoordinator(type, cap[i])]

\* prev.map(part => part.id === id ? { ...part, state } : part)
SetState(prev, id, state) ==
    [i \in 1..Len(prev) |->
        IF prev[i].id = id THEN [prev[i] EXCEPT !.state = state] ELSE prev[i]]

\* prev.map(p => ({ ...p, state }))
SetAllStates(prev, state) ==
    [i \in 1..Len(prev) |-> [prev[i] EXCEPT !.state = state]]

\* Lines 87-110: the state a participant takes with its vote
VotedState(p) == IF p.willVoteYes THEN "prepared" ELSE "aborted"

\* Lines 91-96 / 102-107
Vote(p) ==
    ToCoordinator("vote", IF p.willVoteYes THEN "vote-yes" ELSE "vote-no", p)

\* Lines 54-59.  The handler is the one of the last render: it reads the
\* current coordinatorState.
toggleParticipantVote(id) ==
    /\ coordinatorState = "idle"
    /\ participants' =
           [i \in 1..Len(participants) |->
               IF participants[i].id = id
               THEN [participants[i] EXCEPT !.willVoteYes = ~@]
               ELSE participants[i]]
    /\ UNCHANGED <<coordinatorState, messages, phase, runs, lastRun>>
    /\ UNCHANGED nonTPC

\* Lines 61-79: the click on Start Transaction, up to the first await.  The
\* closure keeps the participants of the render of the click (cap).
startTransaction ==
    /\ coordinatorState = "idle"
    /\ Len(runs) < MaxRuns
    /\ coordinatorState' = "preparing"
    /\ phase' = "prepare"
    /\ messages' = Broadcast("prepare", participants)
    /\ runs' = Append(runs, [pc |-> "vote", i |-> 1, due |-> MessageDelay,
                             cap |-> participants, allYes |-> TRUE,
                             votes |-> << >>, wasReset |-> FALSE])
    /\ UNCHANGED <<participants, lastRun>>
    /\ UNCHANGED nonTPC

\* The timers of two runs started within the same 100 ms fire in the order
\* they were set: run r waits for the older runs at the same position.
TpcDue(r) ==
    /\ runs[r].due = 0
    /\ \A q \in 1..(r - 1) :
           ~(runs[q].due = 0 /\ runs[q].pc = runs[r].pc /\ runs[q].i = runs[r].i)

RemoveRun(r) == SubSeq(runs, 1, r - 1) \o SubSeq(runs, r + 1, Len(runs))

\* Lines 80 (first vote only) and 86-111: one iteration of the vote loop,
\* up to its await
VoteStep(r) ==
    LET run == runs[r]
        p   == run.cap[run.i]
    IN  /\ TpcDue(r)
        /\ run.pc = "vote"
        /\ messages' = IF run.i = 1 THEN << >> ELSE messages
        /\ participants' = SetState(participants, p.id, VotedState(p))
        /\ runs' = [runs EXCEPT
                       ![r].votes = Append(run.votes, Vote(p)),
                       ![r].allYes = run.allYes /\ p.willVoteYes,
                       ![r].due = VoteDelay,
                       ![r].pc = IF run.i = Len(run.cap) THEN "votes" ELSE "vote",
                       ![r].i = IF run.i = Len(run.cap) THEN 1 ELSE run.i + 1]
        /\ UNCHANGED <<coordinatorState, phase, lastRun>>
        /\ UNCHANGED nonTPC

\* Lines 114-115
VotesSent(r) ==
    /\ TpcDue(r)
    /\ runs[r].pc = "votes"
    /\ messages' = runs[r].votes
    /\ runs' = [runs EXCEPT ![r].pc = "decide", ![r].due = MessageDelay]
    /\ UNCHANGED <<participants, coordinatorState, phase, lastRun>>
    /\ UNCHANGED nonTPC

\* Lines 116-132 (all YES) and 116, 152-164 (a NO)
Decide(r) ==
    LET run == runs[r]
    IN  /\ TpcDue(r)
        /\ run.pc = "decide"
        /\ coordinatorState' = IF run.allYes THEN "committing" ELSE "aborting"
        /\ phase' = IF run.allYes THEN "commit" ELSE "abort"
        /\ messages' = Broadcast(IF run.allYes THEN "commit" ELSE "abort", run.cap)
        /\ runs' = [runs EXCEPT ![r].pc = "finish", ![r].due = MessageDelay]
        /\ UNCHANGED <<participants, lastRun>>
        /\ UNCHANGED nonTPC

\* What a run leaves in lastRun when it returns
Ended(run, coordinator, parts) ==
    [allYes |-> \A i \in 1..Len(run.cap) : run.cap[i].willVoteYes,
     wasReset |-> run.wasReset,
     coordinatorState |-> coordinator,
     states |-> [i \in 1..Len(parts) |-> parts[i].state]]

\* Lines 133-148: the participants commit, the ACKs are sent
Commit(r) ==
    LET run == runs[r]
    IN  /\ TpcDue(r)
        /\ run.pc = "finish"
        /\ run.allYes
        /\ participants' = SetAllStates(participants, "committed")
        /\ coordinatorState' = "committed"
        /\ messages' = [i \in 1..Len(run.cap) |->
                           ToCoordinator("ack", "ack", run.cap[i])]
        /\ runs' = [runs EXCEPT ![r].pc = "acked", ![r].due = AckDelay]
        /\ UNCHANGED <<phase, lastRun>>
        /\ UNCHANGED nonTPC

\* Lines 149-150 and 173: the ACKs arrived, the run returns
Acked(r) ==
    /\ TpcDue(r)
    /\ runs[r].pc = "acked"
    /\ messages' = << >>
    /\ phase' = "none"
    /\ runs' = RemoveRun(r)
    /\ lastRun' = <<Ended(runs[r], coordinatorState, participants)>>
    /\ UNCHANGED <<participants, coordinatorState>>
    /\ UNCHANGED nonTPC

\* Lines 165-170 and 173: the participants abort, the run returns
Abort(r) ==
    LET run == runs[r]
    IN  /\ TpcDue(r)
        /\ run.pc = "finish"
        /\ ~run.allYes
        /\ messages' = << >>
        /\ participants' = SetAllStates(participants, "aborted")
        /\ coordinatorState' = "aborted"
        /\ phase' = "none"
        /\ runs' = RemoveRun(r)
        /\ lastRun' = <<Ended(run, "aborted", participants')>>
        /\ UNCHANGED nonTPC

\* Lines 176-187: the click on Reset.  No timer is cleared: the runs in
\* progress go on.
TpcReset ==
    /\ participants' = InitialParticipants
    /\ coordinatorState' = "idle"
    /\ messages' = << >>
    /\ phase' = "none"
    /\ runs' = [r \in 1..Len(runs) |-> [runs[r] EXCEPT !.wasReset = TRUE]]
    /\ lastRun' = NoRun
    /\ UNCHANGED nonTPC

\* 100 ms pass: no timer of the widget is due, and one at least is pending
TpcTick ==
    /\ runs # << >>
    /\ \A r \in 1..Len(runs) : runs[r].due > 0
    /\ runs' = [r \in 1..Len(runs) |-> [runs[r] EXCEPT !.due = @ - 1]]
    /\ UNCHANGED <<participants, coordinatorState, messages, phase, lastRun>>
    /\ UNCHANGED nonTPC

InitTPC ==
    /\ participants = InitialParticipants
    /\ coordinatorState = "idle"
    /\ messages = << >>
    /\ phase = "none"
    /\ runs = << >>
    /\ lastRun = NoRun

(***************************************************************************)
(* RaftConsensus.  Time is counted in units of TickMs milliseconds.  The   *)
(* log cell of the event list is written by addLog only: it is left out.   *)
(* The auto-run effect (lines 237-251) runs again after every render in    *)
(* which isRunning, nodes or speed changed, and its cleanup clears the     *)
(* timer or interval of the run before.  Every setNodes call of the        *)
(* component stores a new array, so every change of nodes restarts it.     *)
(***************************************************************************)
TickMs == 100

NodeIds == <<"N1", "N2", "N3", "N4", "N5">>

\* Lines 293-295: the options of the speed select the user picks here, 0.5x
\* and 1x, doubled.  (2x halves every delay of 1x once more; its delays of
\* 250 ms and 750 ms are not whole ticks.)
Speeds == {1, 2}

\* Bound on the number of clicks on the controls in one behaviour
MaxRaftClicks == 3

\* Line 98
RequestMs == 100

\* Line 97
VoteMs == 1000

\* Line 139
HeartbeatClearMs == 800

\* Line 195
ReplicateMs == 1000

\* Line 194
CommitMs == 500

\* Line 218
ElectionTimeoutMs == 2000

\* Line 244
AutoElectionMs == 1500

\* Line 248
HeartbeatMs == 2000

\* ms / speed, in ticks (sp is twice the speed factor)
Scaled(ms, sp) == (ms * 2) \div (sp * TickMs)

Fixed(ms) == ms \div TickMs

\* Lines 44-51 and 223-230
InitialNodes ==
    [i \in 1..Len(NodeIds) |->
        [id |-> NodeIds[i], state |-> "follower", term |-> 0,
         votedFor |-> "", log |-> << >>, commitIndex |-> 0]]

NoTimer == << >>

\* nodes.find(n => n.state === 'leader'): << >> for undefined
FindLeader(ns) ==
    IF \E i \in 1..Len(ns) : ns[i].state = "leader"
    THEN <<ns[CHOOSE i \in 1..Len(ns) :
                 /\ ns[i].state = "leader"
                 /\ \A j \in 1..(i - 1) : ns[j].state # "leader"]>>
    ELSE << >>

\* nodes.filter(n => n.id !== id).map(n => message)
RaftBroadcast(ns, from, type, term) ==
    LET others == SelectSeq(ns, LAMBDA n : n.id # from)
    IN  [i \in 1..Len(others) |->
            [from |-> from, to |-> others[i].id, type |-> type, term |-> term]]

\* Lines 237-251: the timers the effect may set (the node of the election
\* is drawn by Math.random)
AutoTimers(running, ns, sp) ==
    IF ~running THEN {NoTimer}
    ELSE IF FindLeader(ns) = << >>
         THEN {<<[kind |-> "election", node |-> ns[i].id, speed |-> sp,
                  due |-> Scaled(AutoElectionMs, sp)]>> : i \in 1..Len(ns)}
         ELSE {<<[kind |-> "heartbeat", node |-> FindLeader(ns)[1].id, speed |-> sp,
                  due |-> Scaled(HeartbeatMs, sp)]>>}

RaftTimer(kind, due, node, term, entry, sp) ==
    [kind |-> kind, due |-> due, node |-> node, term |-> term,
     entry |-> entry, speed |-> sp]

NoEntry == [term |-> 0, command |-> 0]

RemoveTimer(i) ==
    SubSeq(raftTimers, 1, i - 1) \o SubSeq(raftTimers, i + 1, Len(raftTimers))

\* Click on Start Simulation / Running: line 266
ToggleRunning ==
    /\ raftClicks < MaxRaftClicks
    /\ raftClicks' = raftClicks + 1
    /\ isRunning' = ~isRunning
    /\ auto' \in AutoTimers(isRunning', nodes, speed)
    /\ UNCHANGED <<nodes, raftMessages, speed, raftTimers>>
    /\ UNCHANGED nonRaft

\* The speed select: line 290
SetSpeed(sp) ==
    /\ raftClicks < MaxRaftClicks
    /\ raftClicks' = raftClicks + 1
    /\ sp # speed
    /\ speed' = sp
    /\ auto' \in AutoTimers(isRunning, nodes, sp)
    /\ UNCHANGED <<nodes, raftMessages, isRunning, raftTimers>>
    /\ UNCHANGED nonRaft

\* Lines 67-102: nodeId becomes candidate of the next term; the vote
\* requests are shown 100 ms later.  sp is the speed of the closure.
startElection(nodeId, sp, rest) ==
    LET nodeIndex == CHOOSE i \in 1..Len(nodes) : nodes[i].id = nodeId
        node == [nodes[nodeIndex] EXCEPT !.state = "candidate",
                                         !.term = @ + 1,
                                         !.votedFor = nodeId]
    IN  /\ nodes' = [nodes EXCEPT ![nodeIndex] = node]
        /\ raftTimers' = Append(rest, RaftTimer("request", Fixed(RequestMs),
                                                 nodeId, node.term, NoEntry, sp))
        /\ auto' \in AutoTimers(isRunning, nodes', speed)
        /\ UNCHANGED <<raftMessages, isRunning, speed, raftClicks>>
        /\ UNCHANGED nonRaft

\* Lines 92-97: the first timer of startElection
RequestFire(i) ==
    LET t == raftTimers[i]
    IN  /\ t.kind = "request"
        /\ t.due = 0
        /\ raftMessages' = RaftBroadcast(nodes, t.node, "vote-request", t.term)
        /\ raftTimers' = Append(RemoveTimer(i),
                                RaftTimer("response", Scaled(VoteMs, t.speed),
                                          t.node, t.term, NoEntry, t.speed))
        /\ UNCHANGED <<nodes, isRunning, speed, auto, raftClicks>>
        /\ UNCHANGED nonRaft

\* Line 106: every other node votes yes, plus the candidate itself
Votes(currentNodes, candidateId) ==
    Len(SelectSeq(currentNodes, LAMBDA n : n.id # candidateId)) + 1

\* Line 107
Majority(currentNodes) == Len(currentNodes) \div 2 + 1

\* Line 111
Elected(votes, majority) == votes >= majority

\* Lines 104-119: handleVoteResponses, called by the second timer
ResponseFire(i) ==
    LET t == raftTimers[i]
    IN  /\ t.kind = "response"
        /\ t.due = 0
        /\ raftMessages' = << >>
        /\ raftTimers' = RemoveTimer(i)
        /\ IF Elected(Votes(nodes, t.node), Majority(nodes))
           THEN /\ nodes' = [j \in 1..Len(nodes) |->
                                IF nodes[j].id = t.node
                                THEN [nodes[j] EXCEPT !.state = "leader"]
                                ELSE nodes[j]]
                /\ auto' \in AutoTimers(isRunning, nodes', speed)
           ELSE UNCHANGED <<nodes, auto>>
        /\ UNCHANGED <<isRunning, speed, raftClicks>>
        /\ UNCHANGED nonRaft

\* Lines 122-140, called by the interval of the effect
sendHeartbeats ==
    /\ auto # NoTimer
    /\ auto[1].kind = "heartbeat"
    /\ auto[1].due = 0
    /\ LET leader == FindLeader(nodes)[1]
       IN  /\ raftMessages' = RaftBroadcast(nodes, leader.id, "heartbeat", leader.term)
           /\ raftTimers' = Append(raftTimers,
                                   RaftTimer("hb-clear", Scaled(HeartbeatClearMs, auto[1].speed),
                                             leader.id, leader.term, NoEntry, auto[1].speed))
    /\ auto' = <<[auto[1] EXCEPT !.due = Scaled(HeartbeatMs, auto[1].speed)]>>
    /\ UNCHANGED <<nodes, isRunning, speed, raftClicks>>
    /\ UNCHANGED nonRaft

\* Line 139
HeartbeatClearFire(i) ==
    /\ raftTimers[i].kind = "hb-clear"
    /\ raftTimers[i].due = 0
    /\ raftMessages' = << >>
    /\ raftTimers' = RemoveTimer(i)
    /\ UNCHANGED <<nodes, isRunning, speed, auto, raftClicks>>
    /\ UNCHANGED nonRaft

\* Line 244: the timer of the effect starts the election
AutoElectionFire ==
    /\ auto # NoTimer
    /\ auto[1].kind = "election"
    /\ auto[1].due = 0
    /\ startElection(auto[1].node, auto[1].speed, raftTimers)

\* Index the followers replicate the entry at and the commit covers
CommitLength(n) == Len(n.log)

\* Lines 143-175: the click on Append Entry (disabled without a leader)
appendEntry ==
    /\ raftClicks < MaxRaftClicks
    /\ raftClicks' = raftClicks + 1
    /\ FindLeader(nodes) # << >>
    /\ LET leader   == FindLeader(nodes)[1]
           newEntry == [term |-> leader.term, command |-> Len(leader.log) + 1]
       IN  /\ nodes' = [j \in 1..Len(nodes) |->
                           IF nodes[j].id = leader.id
                           THEN [nodes[j] EXCEPT !.log = Append(@, newEntry)]
                           ELSE nodes[j]]
           /\ raftMessages' = RaftBroadcast(nodes, leader.id, "append-entries", leader.term)
           /\ raftTimers' = Append(raftTimers,
                                   RaftTimer("replicate", Scaled(ReplicateMs, speed),
                                             leader.id, leader.term, newEntry, speed))
    /\ auto' \in AutoTimers(isRunning, nodes', speed)
    /\ UNCHANGED <<isRunning, speed>>
    /\ UNCHANGED nonRaft

\* Lines 178-195: the followers replicate
ReplicateFire(i) ==
    LET t == raftTimers[i]
    IN  /\ t.kind = "replicate"
        /\ t.due = 0
        /\ nodes' = [j \in 1..Len(nodes) |->
                        IF nodes[j].id # t.node
                        THEN [nodes[j] EXCEPT !.log = Append(@, t.entry)]
                        ELSE nodes[j]]
        /\ raftMessages' = << >>
        /\ raftTimers' = Append(RemoveTimer(i),
                                RaftTimer("commit", Scaled(CommitMs, t.speed),
                                          t.node, t.term, t.entry, t.speed))
        /\ auto' \in AutoTimers(isRunning, nodes', speed)
        /\ UNCHANGED <<isRunning, speed, raftClicks>>
        /\ UNCHANGED nonRaft

\* Lines 188-194: every node commits its whole log
CommitFire(i) ==
    /\ raftTimers[i].kind = "commit"
    /\ raftTimers[i].due = 0
    /\ nodes' = [j \in 1..Len(nodes) |->
                    [nodes[j] EXCEPT !.commitIndex = CommitLength(nodes[j])]]
    /\ raftTimers' = RemoveTimer(i)
    /\ auto' \in AutoTimers(isRunning, nodes', speed)
    /\ UNCHANGED <<raftMessages, isRunning, speed, raftClicks>>
    /\ UNCHANGED nonRaft

\* Lines 199-219: the click on Kill Leader (disabled without a leader)
killLeader ==
    /\ raftClicks < MaxRaftClicks
    /\ raftClicks' = raftClicks + 1
    /\ FindLeader(nodes) # << >>
    /\ LET leader == FindLeader(nodes)[1]
       IN  /\ nodes' = [j \in 1..Len(nodes) |->
                           IF nodes[j].id = leader.id
                           THEN [nodes[j] EXCEPT !.state = "follower"]
                           ELSE nodes[j]]
           /\ raftTimers' = Append(raftTimers,
                                   RaftTimer("timeout", Scaled(ElectionTimeoutMs, speed),
                                             leader.id, leader.term, NoEntry, speed))
    /\ auto' \in AutoTimers(isRunning, nodes', speed)
    /\ UNCHANGED <<raftMessages, isRunning, speed>>
    /\ UNCHANGED nonRaft

\* The election timeout passes and no election is started
TimeoutFireNoElection(i) ==
    /\ raftTimers[i].kind = "timeout"
    /\ raftTimers[i].due = 0
    /\ raftTimers' = RemoveTimer(i)
    /\ UNCHANGED <<nodes, raftMessages, isRunning, speed, auto, raftClicks>>
    /\ UNCHANGED nonRaft

\* Lines 214-218: the election timeout; the follower is drawn by Math.random
\* among the nodes other than the killed leader
TimeoutFire(i) ==
    /\ raftTimers[i].kind = "timeout"
    /\ raftTimers[i].due = 0
    /\ \E f \in 1..Len(NodeIds) :
           /\ NodeIds[f] # raftTimers[i].node
           /\ startElection(NodeIds[f], raftTimers[i].speed, RemoveTimer(i))

\* Lines 222-234.  The timers of the handlers are not cleared.
RaftReset ==
    /\ raftClicks < MaxRaftClicks
    /\ raftClicks' = raftClicks + 1
    /\ nodes' = InitialNodes
    /\ raftMessages' = << >>
    /\ isRunning' = FALSE
    /\ auto' \in AutoTimers(FALSE, nodes', speed)
    /\ UNCHANGED <<speed, raftTimers>>
    /\ UNCHANGED nonRaft

\* TickMs pass: no timer is due, and one at least is pending
RaftTick ==
    /\ raftTimers # << >> \/ auto # NoTimer
    /\ \A i \in 1..Len(raftTimers) : raftTimers[i].due > 0
    /\ auto # NoTimer => auto[1].due > 0
    /\ raftTimers' = [i \in 1..Len(raftTimers) |->
                         [raftTimers[i] EXCEPT !.due = @ - 1]]
    /\ auto' = IF auto = NoTimer THEN auto
               ELSE <<[auto[1] EXCEPT !.due = @ - 1]>>
    /\ UNCHANGED <<nodes, raftMessages, isRunning, speed, raftClicks>>
    /\ UNCHANGED nonRaft

InitRaft ==
    /\ nodes = InitialNodes
    /\ raftMessages = << >>
    /\ isRunning = FALSE
    /\ speed = 2
    /\ raftTimers = << >>
    /\ auto = NoTimer
    /\ raftClicks = 0

(***************************************************************************)
(* VectorClocks                                                            *)
(***************************************************************************)
\* Line 31
NODE_IDS == <<"A", "B", "C">>

\* Bound on eventCounter: the events between two resets
MaxEvents == 4

\* Bound on the components of the clocks handed to compareCausality
MaxComponent == 2

\* The clocks handed to compareCausality (SpecCompare)
Clocks == [{NODE_IDS[i] : i \in 1..Len(NODE_IDS)} -> 0..MaxComponent]

NoId == -1

\* clock[id] || 0, for the clock vc
OrZero(vc, id) == IF id \in DOMAIN vc THEN vc[id] ELSE 0

Max(x, y) == IF x > y THEN x ELSE y

\* Lines 38-44: the two flags after the loop has visited NODE_IDS[1..n]
RECURSIVE CompareFlags(_, _, _)
CompareFlags(a, b, n) ==
    IF n = 0 THEN [aBeforeB |-> TRUE, bBeforeA |-> TRUE]
    ELSE LET f  == CompareFlags(a, b, n - 1)
             id == NODE_IDS[n]
         IN  [bBeforeA |-> IF OrZero(a, id) > OrZero(b, id) THEN FALSE ELSE f.bBeforeA,
              aBeforeB |-> IF OrZero(b, id) > OrZero(a, id) THEN FALSE ELSE f.aBeforeB]

\* Lines 46-48
Verdict(f) ==
    IF f.aBeforeB /\ ~f.bBeforeA THEN "before"
    ELSE IF f.bBeforeA /\ ~f.aBeforeB THEN "after"
    ELSE "concurrent"

\* Lines 37-49
compareCausality(a, b) == Verdict(CompareFlags(a, b, Len(NODE_IDS)))

\* mergeClock that keeps the local clock
mergeClockLocal(local, received) == local

\* Lines 51-57
mergeClock(local, received) ==
    [id \in DOMAIN local \cup {NODE_IDS[i] : i \in 1..Len(NODE_IDS)} |->
        Max(OrZero(local, id), OrZero(received, id))]

\* Lines 60-64 and 143-147
InitialClocks ==
    [n \in {NODE_IDS[i] : i \in 1..Len(NODE_IDS)} |->
        [id \in {NODE_IDS[i] : i \in 1..Len(NODE_IDS)} |-> 0]]

\* An Event; from and to stand for the description, NoId for no relatedEventId
Event(id, nodeId, type, vc, from, to, relatedEventId) ==
    [id |-> id, nodeId |-> nodeId, type |-> type, clock |-> vc,
     from |-> from, to |-> to, relatedEventId |-> relatedEventId]

\* Lines 72-85
localEvent(nodeId) ==
    LET newClock == [clocks[nodeId] EXCEPT ![nodeId] = @ + 1]
    IN  /\ events' = Append(events, Event(eventCounter, nodeId, "local", newClock,
                                          nodeId, nodeId, NoId))
        /\ eventCounter' = eventCounter + 1
        /\ clocks' = [clocks EXCEPT ![nodeId] = newClock]
        /\ UNCHANGED <<vcMessages, selectedEvents, messageCounter, compared>>
        /\ UNCHANGED nonVC

\* Lines 87-113
sendMessage(from, to) ==
    LET newClock == [clocks[from] EXCEPT ![from] = @ + 1]
        msgId    == messageCounter
    IN  /\ events' = Append(events, Event(eventCounter, from, "send", newClock,
                                          from, to, msgId))
        /\ vcMessages' = Append(vcMessages,
                                [id |-> msgId, from |-> from, to |-> to,
                                 clock |-> newClock, inTransit |-> TRUE])
        /\ eventCounter' = eventCounter + 1
        /\ messageCounter' = messageCounter + 1
        /\ clocks' = [clocks EXCEPT ![from] = newClock]
        /\ UNCHANGED <<selectedEvents, compared>>
        /\ UNCHANGED nonVC

\* Lines 115-140
deliverMessage(msgId) ==
    /\ \E k \in 1..Len(vcMessages) : vcMessages[k].id = msgId
    /\ LET msg == vcMessages[CHOOSE k \in 1..Len(vcMessages) :
                      /\ vcMessages[k].id = msgId
                      /\ \A j \in 1..(k - 1) : vcMessages[j].id # msgId]
           merged == [mergeClock(clocks[msg.to], msg.clock) EXCEPT ![msg.to] = @ + 1]
       IN  /\ msg.inTransit
           /\ events' = Append(events, Event(eventCounter, msg.to, "receive", merged,
                                             msg.from, msg.to, msgId))
           /\ vcMessages' = [k \in 1..Len(vcMessages) |->
                                IF vcMessages[k].id = msgId
                                THEN [vcMessages[k] EXCEPT !.inTransit = FALSE]
                                ELSE vcMessages[k]]
           /\ eventCounter' = eventCounter + 1
           /\ clocks' = [clocks EXCEPT ![msg.to] = merged]
    /\ UNCHANGED <<selectedEvents, messageCounter, compared>>
    /\ UNCHANGED nonVC

\* Lines 142-154
VcReset ==
    /\ clocks' = InitialClocks
    /\ events' = << >>
    /\ vcMessages' = << >>
    /\ selectedEvents' = <<NoId, NoId>>
    /\ eventCounter' = 0
    /\ messageCounter' = 0
    /\ UNCHANGED compared
    /\ UNCHANGED nonVC

\* Lines 156-164
toggleEventSelection(eventId) ==
    /\ selectedEvents' =
           IF selectedEvents[1] = eventId THEN <<NoId, selectedEvents[2]>>
           ELSE IF selectedEvents[2] = eventId THEN <<selectedEvents[1], NoId>>
           ELSE IF selectedEvents[1] = NoId THEN <<eventId, selectedEvents[2]>>
           ELSE IF selectedEvents[2] = NoId THEN <<selectedEvents[1], eventId>>
           ELSE <<eventId, NoId>>
    /\ UNCHANGED <<clocks, events, vcMessages, eventCounter, messageCounter, compared>>
    /\ UNCHANGED nonVC

\* events.find(e => e.id === id)
FindEvent(id) ==
    events[CHOOSE k \in 1..Len(events) :
               /\ events[k].id = id
               /\ \A j \in 1..(k - 1) : events[j].id # id]

\* Lines 166-173: the comparison the render shows for the selected events
causalityResult ==
    IF selectedEvents[1] # NoId /\ selectedEvents[2] # NoId
    THEN <<compareCausality(FindEvent(selectedEvents[1]).clock,
                            FindEvent(selectedEvents[2]).clock)>>
    ELSE << >>

\* compareCausality applied to two clocks, in both orders
Compare(a, b) ==
    /\ compared' = [a |-> a, b |-> b,
                    ab |-> compareCausality(a, b),
                    ba |-> compareCausality(b, a)]
    /\ UNCHANGED <<clocks, events, vcMessages, selectedEvents, eventCounter,
                   messageCounter>>
    /\ UNCHANGED nonVC

InitVC ==
    /\ clocks = InitialClocks
    /\ events = << >>
    /\ vcMessages = << >>
    /\ selectedEvents = <<NoId, NoId>>
    /\ eventCounter = 0
    /\ messageCounter = 0
    /\ compared = [a |-> InitialClocks["A"], b |-> InitialClocks["A"],
                   ab |-> compareCausality(InitialClocks["A"], InitialClocks["A"]),
                   ba |-> compareCausality(InitialClocks["A"], InitialClocks["A"])]

(***************************************************************************)
(* CircuitBreaker.  The user clicks at any time, so the clicks and the     *)
(* callbacks of the three timers (token refill every second, the open      *)
(* timeout, the auto-mode interval) come in any order: a timer is an       *)
(* action that is enabled while the timer is set.  The effects run again   *)
(* after every render that changed their dependencies, so makeRequest      *)
(* always reads the circuitState and the tokens of the last render.  Of    *)
(* the requests list (display only, the last 50) the last element is kept; *)
(* lastStateChange only restarts the open timeout and is left out.         *)
(***************************************************************************)
\* Line 31
maxTokens == 10

\* Line 32
refillRate == 2

\* Line 35
failureThreshold == 5

\* Line 36
successThreshold == 3

\* The positions of the error-rate slider (line 38: 30 at the start)
ErrorRates == {30, 100}

\* Math.random() * 100, in [0, 100)
Draws == {0, 50}

\* Bound on requestIdRef.current: the makeRequest calls of one behaviour
MaxRequests == 12

NoRequest == << >>

\* Lines 42-48 and 196-202
InitialStats ==
    [successCount |-> 0, failureCount |-> 0, totalRequests |-> 0,
     blockedRequests |-> 0, rateLimitedRequests |-> 0]

Min(x, y) == IF x < y THEN x ELSE y

\* A Request without its timestamp
Request(id, success, blocked, rateLimited) ==
    [id |-> id, success |-> success, blocked |-> blocked, rateLimited |-> rateLimited]

\* Line 78
RateLimited == tokens < 1

\* The circuit check that lets every request through
CircuitBlocksNothing == FALSE

\* Line 99
CircuitBlocks == circuitState = "open"

\* Line 117
Succeeds(draw) == draw > errorRate

\* failureCount when the streak of failures is never cleared
AfterSuccessKept == failureCount

\* Line 147: setFailureCount(0)
AfterSuccess == 0

\* A failure in half-open that leaves the circuit half-open
TripsNever == "half-open"

\* Line 158: setCircuitState('open')
Trips == "open"

\* Lines 73-173: makeRequest; draw is the value of Math.random() * 100
makeRequest(draw) ==
    /\ requestId' = requestId + 1
    /\ IF RateLimited
       THEN \* lines 78-93
            /\ lastRequest' = <<Request(requestId, FALSE, FALSE, TRUE)>>
            /\ stats' = [stats EXCEPT !.totalRequests = @ + 1,
                                      !.rateLimitedRequests = @ + 1]
            /\ UNCHANGED <<circuitState, failureCount, successCount, tokens,
                           streak, trial>>
       ELSE /\ tokens' = tokens - 1
            /\ IF CircuitBlocks
               THEN \* lines 99-114
                    /\ lastRequest' = <<Request(requestId, FALSE, TRUE, FALSE)>>
                    /\ stats' = [stats EXCEPT !.totalRequests = @ + 1,
                                              !.blockedRequests = @ + 1]
                    /\ UNCHANGED <<circuitState, failureCount, successCount,
                                   streak, trial>>
               ELSE LET success == Succeeds(draw)
                    IN  /\ lastRequest' = <<Request(requestId, success, FALSE, FALSE)>>
                        /\ IF success
                           THEN \* lines 128-148
                                /\ stats' = [stats EXCEPT !.totalRequests = @ + 1,
                                                          !.successCount = @ + 1]
                                /\ IF circuitState = "half-open"
                                   THEN IF successCount + 1 >= successThreshold
                                        THEN /\ circuitState' = "closed"
                                             /\ failureCount' = 0
                                             /\ successCount' = 0
                                             /\ trial' = trial + 1
                                             /\ streak' = 0
                                        ELSE /\ successCount' = successCount + 1
                                             /\ trial' = trial + 1
                                             /\ UNCHANGED <<circuitState, failureCount,
                                                            streak>>
                                   ELSE /\ failureCount' = AfterSuccess
                                        /\ streak' = 0
                                        /\ UNCHANGED <<circuitState, successCount, trial>>
                           ELSE \* lines 149-172
                                /\ stats' = [stats EXCEPT !.totalRequests = @ + 1,
                                                          !.failureCount = @ + 1]
                                /\ IF circuitState = "half-open"
                                   THEN /\ circuitState' = Trips
                                        /\ successCount' = 0
                                        /\ UNCHANGED <<failureCount, streak, trial>>
                                   ELSE /\ streak' = streak + 1
                                        /\ IF failureCount + 1 >= failureThreshold
                                           THEN /\ circuitState' = "open"
                                                /\ failureCount' = 0
                                           ELSE /\ failureCount' = failureCount + 1
                                                /\ UNCHANGED circuitState
                                        /\ UNCHANGED <<successCount, trial>>
    /\ UNCHANGED <<errorRate, autoMode>>
    /\ UNCHANGED nonCB

\* Line 218: the click on Send Request (disabled in auto mode)
SendRequest(draw) == ~autoMode /\ makeRequest(draw)

\* Lines 176-188: the interval of the auto mode calls makeRequest
AutoRequest(draw) == autoMode /\ makeRequest(draw)

\* Line 225
ToggleAuto ==
    /\ autoMode' = ~autoMode
    /\ UNCHANGED <<circuitState, failureCount, successCount, tokens, errorRate,
                   stats, lastRequest, requestId, streak, trial>>
    /\ UNCHANGED nonCB

\* Line 247
SetErrorRate(rate) ==
    /\ rate # errorRate
    /\ errorRate' = rate
    /\ UNCHANGED <<circuitState, failureCount, successCount, tokens, stats,
                   lastRequest, requestId, autoMode, streak, trial>>
    /\ UNCHANGED nonCB

\* Lines 55-60: the refill interval
Refill ==
    /\ tokens' = Min(tokens + refillRate, maxTokens)
    /\ UNCHANGED <<circuitState, failureCount, successCount, errorRate, stats,
                   lastRequest, requestId, autoMode, streak, trial>>
    /\ UNCHANGED nonCB

\* Lines 63-71: the timer set while the circuit is open
OpenTimeout ==
    /\ circuitState = "open"
    /\ circuitState' = "half-open"
    /\ trial' = 0
    /\ UNCHANGED <<failureCount, successCount, tokens, errorRate, stats,
                   lastRequest, requestId, autoMode, streak>>
    /\ UNCHANGED nonCB

\* Lines 190-204.  requestIdRef is not reset.
CbReset ==
    /\ circuitState' = "closed"
    /\ failureCount' = 0
    /\ successCount' = 0
    /\ tokens' = maxTokens
    /\ lastRequest' = NoRequest
    /\ stats' = InitialStats
    /\ autoMode' = FALSE
    /\ streak' = 0
    /\ trial' = 0
    /\ UNCHANGED <<errorRate, requestId>>
    /\ UNCHANGED nonCB

InitCB ==
    /\ circuitState = "closed"
    /\ failureCount = 0
    /\ successCount = 0
    /\ tokens = maxTokens
    /\ errorRate = 30
    /\ stats = InitialStats
    /\ lastRequest = NoRequest
    /\ requestId = 0
    /\ autoMode = FALSE
    /\ streak = 0
    /\ trial = 0

(***************************************************************************)
(* The theme-color checker script.  A line is a sequence of tokens; a      *)
(* token is blank space, a comment delimiter or a word, and a class word   *)
(* may carry an opacity suffix ("/10").  A file has a directory (a         *)
(* sequence of names below the project root), a name and its lines.        *)
(***************************************************************************)
\* Line 53
SCAN_DIRS == <<"src/components", "src/pages", "src/layouts">>

\* Line 54
EXTENSIONS == <<".tsx", ".jsx", ".astro", ".ts", ".js">>

\* Lines 57-61
IGNORE_FILES == <<"ThemeToggle.tsx", "MetricsDashboard.tsx", "EytzingerLayout.tsx">>

\* Bound on the number of files of the file system
MaxFiles == 2

NotRun == -1

Word(text) == [kind |-> "word", text |-> text, opacity |-> FALSE]

\* A class with an opacity suffix, as in bg-white/10
Overlay(text) == [kind |-> "word", text |-> text, opacity |-> TRUE]

Blank == [kind |-> "blank", text |-> " ", opacity |-> FALSE]

Delim(text) == [kind |-> "delim", text |-> text, opacity |-> FALSE]

\* Lines 20-50: the patterns, by the class words they match; every class
\* pattern ends in (?!\/), which rejects the word with an opacity suffix
FORBIDDEN_PATTERNS ==
    << [words |-> {"text-white"}, msg |-> "text-white"],
       [words |-> {"text-gray-400"}, msg |-> "text-gray-*"],
       [words |-> {"bg-white"}, msg |-> "bg-white"],
       [words |-> {"border-gray-700"}, msg |-> "border-gray-*"] >>

\* pattern.exec(line): the first match, << >> for null
Exec(pattern, line) ==
    LET hits == SelectSeq(line, LAMBDA t :
                    t.kind = "word" /\ t.text \in pattern.words /\ ~t.opacity)
    IN  IF hits = << >> THEN << >> ELSE <<hits[1].text>>

\* line.trim(), at the start of the line
RECURSIVE TrimStart(_)
TrimStart(line) ==
    IF line # << >> /\ line[1].kind = "blank" THEN TrimStart(Tail(line)) ELSE line

\* trimmed.startsWith(prefix) for the prefixes of line 90
StartsWith(trimmed, prefix) ==
    /\ trimmed # << >>
    /\ trimmed[1].kind = "delim"
    /\ CASE prefix = "//" -> trimmed[1].text = "//"
         [] prefix = "/*" -> trimmed[1].text = "/*"
         [] prefix = "*"  -> trimmed[1].text \in {"*", "*/"}

\* Lines 89-92
Skipped(line) ==
    LET trimmed == TrimStart(line)
    IN  StartsWith(trimmed, "//") \/ StartsWith(trimmed, "/*") \/ StartsWith(trimmed, "*")

\* Lines 94-106: the issues of one line, pattern by pattern
RECURSIVE LineIssues(_, _, _)
LineIssues(line, index, n) ==
    IF n = 0 THEN << >>
    ELSE LET match == Exec(FORBIDDEN_PATTERNS[n], line)
             rest  == LineIssues(line, index, n - 1)
         IN  IF match # << >>
             THEN Append(rest, [line |-> index + 1, match |-> match[1],
                                suggestion |-> FORBIDDEN_PATTERNS[n].msg])
             ELSE rest

\* Lines 82-110: the issues of lines[1..n] (index is 0-based in the source)
RECURSIVE checkLines(_, _)
checkLines(lines, n) ==
    IF n = 0 THEN << >>
    ELSE checkLines(lines, n - 1) \o
         (IF Skipped(lines[n]) THEN << >>
          ELSE LineIssues(lines[n], n - 1, Len(FORBIDDEN_PATTERNS)))

checkFile(file) == checkLines(file.lines, Len(file.lines))

\* item.endsWith(ext) for some ext of EXTENSIONS
HasExtension(file) == \E i \in 1..Len(EXTENSIONS) : file.ext = EXTENSIONS[i]

\* IGNORE_FILES.includes(item)
Ignored(file) ==
    \E i \in 1..Len(IGNORE_FILES) : IGNORE_FILES[i] = file.name

\* Lines 73-77
Kept(file) == HasExtension(file) /\ ~Ignored(file)

IsPrefix(p, q) == Len(p) <= Len(q) /\ SubSeq(q, 1, Len(p)) = p

\* Lines 63-80: the files below dir (a directory exists when a file lies in
\* it or below it); the subdirectories are visited by the recursive call
RECURSIVE getAllFiles(_)
getAllFiles(dir) ==
    LET below   == {f \in fs : IsPrefix(dir, f.dir)}
        subdirs == {SubSeq(f.dir, 1, Len(dir) + 1) : f \in {g \in below : g.dir # dir}}
    IN  IF below = {} THEN {}
        ELSE {f \in below : f.dir = dir /\ Kept(f)}
             \cup UNION {getAllFiles(d) : d \in subdirs}

\* Lines 115-125: the files with issues, with their issues
Scan ==
    LET files == UNION {getAllFiles(<<SCAN_DIRS[i]>>) : i \in 1..Len(SCAN_DIRS)}
    IN  {[file |-> f, issues |-> checkFile(f)] : f \in {g \in files : checkFile(g) # << >>}}

\* Lines 112-154: one run of the script on the file system
main ==
    /\ exitStatus = NotRun
    /\ allIssues' = Scan
    /\ exitStatus' = IF Scan = {} THEN 0 ELSE 1
    /\ UNCHANGED fs
    /\ UNCHANGED nonTC

\* The lines of the files
CodeLine == <<Word("div")>>

HardcodedLine == <<Blank, Word("div"), Blank, Word("text-white")>>

OverlayLine == <<Word("div"), Blank, Overlay("bg-white")>>

SlashCommentLine == <<Blank, Delim("//"), Blank, Word("text-gray-400")>>

BlockOpenLine == <<Delim("/*")>>

StarLine == <<Blank, Delim("*"), Blank, Word("bg-white")>>

BlockTextLine == <<Blank, Blank, Word("border-gray-700")>>

BlockCloseLine == <<Blank, Delim("*/")>>

JsxCommentLine == <<Blank, Delim("{/*"), Blank, Word("text-white"), Blank, Delim("*/}")>>

TrailingCodeLine == <<Delim("/*"), Word("note"), Delim("*/"), Blank, Word("bg-white")>>

\* The contents a file is written with
Contents ==
    { <<CodeLine>>,
      <<CodeLine, HardcodedLine>>,
      <<OverlayLine, SlashCommentLine>>,
      <<BlockOpenLine, StarLine, BlockCloseLine, CodeLine>>,
      <<BlockOpenLine, BlockTextLine, BlockCloseLine, CodeLine>>,
      <<CodeLine, JsxCommentLine>>,
      <<CodeLine, TrailingCodeLine>> }

\* The directories files are written to
Dirs ==
    { <<"src/components">>, <<"src/components", "ui">>, <<"src/pages">>,
      <<"src/layouts">>, <<"src/content">> }

\* The names files are written with
Names ==
    { [name |-> "Hero.tsx", ext |-> ".tsx"],
      [name |-> "ThemeToggle.tsx", ext |-> ".tsx"],
      [name |-> "index.astro", ext |-> ".astro"],
      [name |-> "notes.md", ext |-> ".md"] }

\* A file is written below the project root
WriteFile(dir, name, lines) ==
    /\ Cardinality(fs) < MaxFiles
    /\ ~\E f \in fs : f.dir = dir /\ f.name = name.name
    /\ fs' = fs \cup {[dir |-> dir, name |-> name.name, ext |-> name.ext,
                       lines |-> lines]}
    /\ exitStatus' = NotRun
    /\ allIssues' = {}
    /\ UNCHANGED nonTC

\* A file is removed
RemoveFile(f) ==
    /\ fs' = fs \ {f}
    /\ exitStatus' = NotRun
    /\ allIssues' = {}
    /\ UNCHANGED nonTC

InitTC ==
    /\ fs = {}
    /\ exitStatus = NotRun
    /\ allIssues = {}

Init ==
    /\ InitBPlus
    /\ InitWAL
    /\ InitLSM
    /\ InitTPC
    /\ InitRaft
    /\ InitVC
    /\ InitCB
    /\ InitTC

NextBPlus ==
    \/ \E key \in BTKeys : Len(inserted) < MaxInserts /\ insert(key)
    \/ BPlusReset

SpecBPlus == Init /\ [][NextBPlus]_vars

NextBPlusDeep ==
    \/ \E key \in DeepKeys : Len(inserted) < MaxDeepInserts /\ insert(key)
    \/ BPlusReset

SpecBPlusDeep == Init /\ [][NextBPlusDeep]_vars

NextWAL ==
    \/ RunDemoClick
    \/ CrashClick
    \/ WalReset
    \/ WalTick
    \/ \E i \in 1..Len(demos) : DemoStep(i)
    \/ \E j \in 1..Len(recoveries) :
           \/ RecoveryBegin(j)
           \/ RecoveryRedo(j)
           \/ RecoveryUndoBegin(j)
           \/ RecoveryUndo(j)

SpecWAL == Init /\ [][NextWAL]_vars

LsmTimers ==
    \E i \in 1..Len(timers) :
        \/ FlushFire(i)
        \/ CompactFire(i)
        \/ CascadeFire(i)

NextLSM ==
    \/ \E key \in FormKeys, value \in FormValues :
           clock <= MaxWrites /\ FormWrite(key, value)
    \/ LsmReset
    \/ LsmTick
    \/ LsmTimers

SpecLSM == Init /\ [][NextLSM]_vars

\* Load Sample is clicked when the widget is at rest (no timer is pending);
\* within one run of the sample the writes race with the flush timers
NextSample ==
    \/ loads < MaxLoads /\ timers = << >> /\ LoadSampleClick
    \/ \E i \in 1..Len(timers) : SampleFire(i)
    \/ LsmReset
    \/ LsmTick
    \/ LsmTimers

SpecSample == Init /\ [][NextSample]_vars

NextTPC ==
    \/ \E id \in ToggleIds : toggleParticipantVote(id)
    \/ startTransaction
    \/ TpcReset
    \/ TpcTick
    \/ \E r \in 1..Len(runs) :
           \/ VoteStep(r)
           \/ VotesSent(r)
           \/ Decide(r)
           \/ Commit(r)
           \/ Acked(r)
           \/ Abort(r)

SpecTPC == Init /\ [][NextTPC]_vars

RaftTimers ==
    \/ AutoElectionFire
    \/ sendHeartbeats
    \/ \E i \in 1..Len(raftTimers) :
           \/ RequestFire(i)
           \/ ResponseFire(i)
           \/ HeartbeatClearFire(i)
           \/ ReplicateFire(i)
           \/ CommitFire(i)
           \/ TimeoutFire(i)

NextRaft ==
    \/ ToggleRunning
    \/ \E sp \in Speeds : SetSpeed(sp)
    \/ appendEntry
    \/ killLeader
    \/ RaftReset
    \/ RaftTick
    \/ RaftTimers

SpecRaft == Init /\ [][NextRaft]_vars

\* The event loop runs every timer that is due, and time passes
SpecRaftLive == SpecRaft /\ WF_vars(RaftTick \/ RaftTimers)

NextVC ==
    \/ \E n \in 1..Len(NODE_IDS) :
           eventCounter < MaxEvents /\ localEvent(NODE_IDS[n])
    \/ \E n, m \in 1..Len(NODE_IDS) :
           /\ n # m
           /\ eventCounter < MaxEvents
           /\ sendMessage(NODE_IDS[n], NODE_IDS[m])
    \/ \E k \in 1..Len(vcMessages) :
           eventCounter < MaxEvents /\ deliverMessage(vcMessages[k].id)
    \/ \E k \in 1..Len(events) : toggleEventSelection(events[k].id)
    \/ VcReset

SpecVC == Init /\ [][NextVC]_vars

NextCompare == \E a, b \in Clocks : Compare(a, b)

SpecCompare == Init /\ [][NextCompare]_vars

NextCB ==
    \/ \E draw \in Draws : requestId < MaxRequests /\ SendRequest(draw)
    \/ \E draw \in Draws : requestId < MaxRequests /\ AutoRequest(draw)
    \/ ToggleAuto
    \/ \E rate \in ErrorRates : SetErrorRate(rate)
    \/ Refill
    \/ OpenTimeout
    \/ CbReset

SpecCB == Init /\ [][NextCB]_vars

NextTC ==
    \/ \E dir \in Dirs, name \in Names, lines \in Contents : WriteFile(dir, name, lines)
    \/ \E f \in fs : RemoveFile(f)
    \/ main

SpecTC == Init /\ [][NextTC]_vars

(***************************************************************************)
(* BPlusTree: observations on the tree held in state                       *)
(***************************************************************************)
\* The nodes of the subtree of node (the objects reached through children)
RECURSIVE Nodes(_)
Nodes(node) ==
    {node} \cup UNION {Nodes(node.children[i]) : i \in 1..Len(node.children)}

\* The leaves of the subtree, left to right
RECURSIVE Leaves(_)
Leaves(node) ==
    LET RECURSIVE Cat(_)
        Cat(i) == IF i = 0 THEN << >>
                  ELSE Cat(i - 1) \o Leaves(node.children[i])
    IN  IF node.isLeaf THEN <<node>> ELSE Cat(Len(node.children))

\* The depths at which the leaves of the subtree sit (node itself at d)
RECURSIVE LeafDepths(_, _)
LeafDepths(node, d) ==
    IF node.isLeaf THEN {d}
    ELSE UNION {LeafDepths(node.children[i], d + 1) : i \in 1..Len(node.children)}

\* getTreeDepth(node)
Depth(r) ==
    IF r = NoNode THEN 0
    ELSE CHOOSE d \in LeafDepths(r[1], 1) : \A e \in LeafDepths(r[1], 1) : e <= d

\* The leaves met from leaf by following the next pointers
RECURSIVE Chain(_)
Chain(leaf) == IF leaf.next = NoNode THEN <<leaf>> ELSE <<leaf>> \o Chain(leaf.next[1])

RECURSIVE Concat(_)
Concat(seqs) == IF seqs = << >> THEN << >> ELSE Head(seqs) \o Concat(Tail(seqs))

Ascending(keys) == \A i \in 1..(Len(keys) - 1) : keys[i] <= keys[i + 1]

\* C1: after every insert, every node of the tree held in state, leaf or
\* internal, has at most MAX_KEYS keys.
C1_AtMostMaxKeys ==
    root # NoNode => \A n \in Nodes(root[1]) : Len(n.keys) <= MAX_KEYS

\* An internal node overflowed and was split: the tree has three levels,
\* and the left half of the split node keeps two keys
C1_Witness ==
    /\ Depth(root) = 3
    /\ \E n \in Nodes(root[1]) : ~n.isLeaf /\ Len(n.keys) = 2

\* C2: from the empty tree, inserting 10, 20, 5, 15 gives a root that is an
\* internal node with the single key 15 and the two leaves [5,10], [15,20].
C2_DemoTree ==
    inserted = <<10, 20, 5, 15>> =>
        /\ root # NoNode
        /\ ~root[1].isLeaf
        /\ root[1].keys = <<15>>
        /\ Len(root[1].children) = 2
        /\ \A i \in 1..2 : root[1].children[i].isLeaf
        /\ root[1].children[1].keys = <<5, 10>>
        /\ root[1].children[2].keys = <<15, 20>>

C2_Witness == inserted = <<10, 20, 5, 15>> /\ root # NoNode

\* C3: all leaves of the tree held in state are at the same depth, and the
\* depth grows (by one) only in an insert that splits the root and puts a
\* new root with one key above the old root and its new sibling.
C3_Balanced ==
    /\ [](root # NoNode => Cardinality(LeafDepths(root[1], 1)) = 1)
    /\ [][Depth(root') > Depth(root) /\ root # NoNode =>
            /\ Depth(root') = Depth(root) + 1
            /\ ~root'[1].isLeaf
            /\ root'[1].addr = nextAddr' - 1
            /\ Len(root'[1].keys) = 1
            /\ Len(root'[1].children) = 2
            /\ root'[1].children[1].id = root[1].id
            /\ root'[1].children[2].id >= nextAddr]_vars

\* The root, an internal node, was split: three levels, all leaves at level 3
C3_Witness == root # NoNode /\ LeafDepths(root[1], 1) = {3}

\* C4: following the next pointers from the leftmost leaf visits exactly the
\* leaves of the tree held in state, left to right, with ascending keys.
C4_LeafChain ==
    root # NoNode =>
        LET leaves == Leaves(root[1])
            chain  == Chain(leaves[1])
        IN  /\ [i \in 1..Len(chain) |-> chain[i].addr]
                  = [i \in 1..Len(leaves) |-> leaves[i].addr]
            /\ Ascending(Concat([i \in 1..Len(chain) |-> chain[i].keys]))


(***************************************************************************)
(* WALVisualizer: claims                                                   *)
(***************************************************************************)
PageValues == [k \in PageKeys |-> dataPages[k].value]

\* C5: from the initial state, runDemo run to its end and then
\* simulateCrashRecovery run to its end leave A=900, B=600, C=750, the first
\* transaction committed and the second aborted.
C5_DemoThenRecovery ==
    history = <<"runDemo", "demoDone", "crash", "recovered">> =>
        /\ PageValues = [k \in PageKeys |->
               CASE k = "balance:A" -> 900
                 [] k = "balance:B" -> 600
                 [] k = "balance:C" -> 750]
        /\ Len(transactions) = 2
        /\ transactions[1].status = "committed"
        /\ transactions[2].status = "aborted"

\* A page is logged: its value is the newValue of a WRITE entry of the wal
Logged(k) ==
    \E i \in 1..Len(wal) :
        /\ wal[i].type = "WRITE"
        /\ wal[i].key = k
        /\ wal[i].newValue = dataPages[k].value

\* C6 as stated: in every reachable state a dirty data page's current value
\* is the newValue of some WRITE entry of the WAL for that key.
C6_DirtyPagesLogged == \A k \in PageKeys : dataPages[k].dirty => Logged(k)

\* Chain i of runDemo is at a call of writeData and makes it
WriteDataStep(i) == DemoScript[demos[i].pc].op = "write" /\ DemoStep(i)

\* C6 as amended: every step in which writeData changes a page appends the
\* WRITE entry of that transaction, key and new value to the WAL and marks
\* the page dirty; and as long as no crash recovery was started, a dirty
\* page's value is the newValue of some WRITE entry of the WAL for its key.
C6_WriteAhead ==
    /\ []((\A n \in 1..Len(history) : history[n] # "crash") => C6_DirtyPagesLogged)
    /\ [][\A i \in 1..Len(demos) : WriteDataStep(i) =>
            LET step == DemoScript[demos[i].pc]
                e    == wal'[Len(wal')]
            IN  /\ Len(wal') = Len(wal) + 1
                /\ e.type = "WRITE"
                /\ e.txnId = demos[i].txn
                /\ e.key = step.key
                /\ e.newValue = step.value
                /\ dataPages'[step.key].value = step.value
                /\ dataPages'[step.key].dirty]_vars

\* writeData has changed page A, which is dirty, and the entry is in the log
C6_Witness ==
    /\ dataPages["balance:A"].dirty
    /\ dataPages["balance:A"].value = 900
    /\ Logged("balance:A")

\* The WRITE entries appended after the last CHECKPOINT entry of the log
\* (all of them when the log has no checkpoint), as positions in the log
AfterLastCheckpoint(capWal) ==
    SelectSeq(Indices(capWal), LAMBDA i :
        /\ \A j \in i..Len(capWal) : capWal[j].type # "CHECKPOINT"
        /\ capWal[i].type = "WRITE")

\* C7: the REDO phase re-applies, in log order, exactly the WRITE entries
\* appended after the most recent CHECKPOINT entry, and none logged before.
C7_RedoFromCheckpoint ==
    \A j \in 1..Len(recoveries) :
        LET r        == recoveries[j]
            expected == AfterLastCheckpoint(r.capWal)
        IN  /\ Len(r.redone) <= Len(expected)
            /\ r.redone = SubSeq(expected, 1, Len(r.redone))
            /\ r.phase \in {"pause", "undo"} => r.redone = expected

(***************************************************************************)
(* LSMTree: claims                                                         *)
(***************************************************************************)
\* The data of a sequence of entries: its pairs of key and value
Data(entries) == {<<e.key, e.value>> : e \in Range(entries)}

\* C8: a flush never discards data: every entry that is in the memtable when
\* a flushMemtable call empties it is in the L0 SSTable that call creates.
C8_FlushKeepsMemtable ==
    [][\A i \in 1..Len(timers) :
          FlushFire(i) /\ timers[i].entries # << >> =>
              Data(memtable) \subseteq Data(sstables'[Len(sstables')].entries)]_vars

\* C9: read(k) returns the value of the most recent write(k, v), for every
\* key written since the last reset.
C9_ReadLatest == \A k \in DOMAIN latest : read(k) = latest[k]

\* The levels that hold a table, and level 0
Levels == {0} \cup {sstables[i].level : i \in 1..Len(sstables)}

ParticipantStates == {participants[i].state : i \in 1..Len(participants)}

\* C11: atomicity -- in no reachable state is one participant committed
\* while another participant is aborted, whatever the votes toggled, the
\* transactions started, the resets and the timing of the timers.
C11_Atomicity == ~({"committed", "aborted"} \subseteq ParticipantStates)

\* C12: a transaction started from the idle state ends with the coordinator
\* and every participant committed if and only if every participant had
\* willVoteYes = true when startTransaction was invoked, and with the
\* coordinator and every participant aborted if a participant votes NO.
C12_Outcome ==
    lastRun # NoRun =>
        LET e == lastRun[1]
            AllIn(state) == /\ e.coordinatorState = state
                            /\ \A i \in 1..Len(e.states) : e.states[i] = state
        IN  /\ AllIn("committed") <=> e.allYes
            /\ ~e.allYes => AllIn("aborted")

\* The same for the runs during which Reset was not clicked
C12_OutcomeWithoutReset ==
    (lastRun # NoRun /\ ~lastRun[1].wasReset) =>
        LET e == lastRun[1]
            AllIn(state) == /\ e.coordinatorState = state
                            /\ \A i \in 1..Len(e.states) : e.states[i] = state
        IN  /\ AllIn("committed") <=> e.allYes
            /\ ~e.allYes => AllIn("aborted")

(***************************************************************************)
(* RaftConsensus                                                           *)
(***************************************************************************)
\* The number of nodes that hold a log entry at index i
Holders(i) == Cardinality({j \in 1..Len(nodes) : Len(nodes[j].log) >= i})

HasLeader == \E j \in 1..Len(nodes) : nodes[j].state = "leader"

\* C13: an entry is committed only once it is replicated to a majority --
\* for every node n and every index i <= n.commitIndex, at least 3 of the 5
\* nodes hold a log entry at index i, also when appendEntry is clicked again
\* while the timers of an earlier entry are pending.
C13_CommittedOnMajority ==
    \A j \in 1..Len(nodes) :
        \A i \in 1..nodes[j].commitIndex : Holders(i) >= Majority(nodes)

\* The election timeout set by killLeader is pending
TimeoutPending == \E i \in 1..Len(raftTimers) : raftTimers[i].kind = "timeout"

\* C14: a new election is triggered when the leader fails -- after
\* killLeader has demoted the leader (its election timeout is pending), some
\* node is eventually in state leader again.
C14_NewLeaderAfterKill == TimeoutPending ~> HasLeader

\* A killed leader (a follower that keeps the term of its election), the
\* election chain of the kill run to its end, and another node leading
C14_Witness ==
    /\ raftTimers = << >>
    /\ \E j \in 1..Len(nodes) : nodes[j].state = "follower" /\ nodes[j].term > 0
    /\ HasLeader

(***************************************************************************)
(* VectorClocks                                                            *)
(***************************************************************************)
NodeSet == {NODE_IDS[i] : i \in 1..Len(NODE_IDS)}

\* Every component of a is <= that of b, and one is strictly less
HappensBefore(a, b) ==
    /\ \A id \in NodeSet : a[id] <= b[id]
    /\ \E id \in NodeSet : a[id] < b[id]

\* C15: compareCausality(a, b) is 'before' exactly when every component of
\* a is <= that of b and one is strictly less, 'after' exactly when that
\* holds with a and b exchanged, 'concurrent' in every other case (equal
\* clocks included); hence (a, b) is 'before' iff (b, a) is 'after'.
C15_CompareCausality ==
    /\ compared.ab = "before" <=> HappensBefore(compared.a, compared.b)
    /\ compared.ab = "after" <=> HappensBefore(compared.b, compared.a)
    /\ compared.ab = "concurrent" <=>
           (~HappensBefore(compared.a, compared.b) /\ ~HappensBefore(compared.b, compared.a))
    /\ compared.a = compared.b => compared.ab = "concurrent"
    /\ compared.ab = "before" <=> compared.ba = "after"

\* The step is a deliverMessage: it appends a receive event
Delivered == Len(events') = Len(events) + 1 /\ events'[Len(events')].type = "receive"

\* The receive events of message id
Receives(id) ==
    {k \in 1..Len(events) : events[k].type = "receive" /\ events[k].relatedEventId = id}

Requested == requestId' = requestId + 1

\* The step is a makeRequest call that was executed against the service
Executed == Requested /\ ~lastRequest'[1].blocked /\ ~lastRequest'[1].rateLimited

\* C17: open means fail fast -- while circuitState is 'open', every
\* makeRequest that passes the rate limiter is recorded as blocked (blocked
\* = true, success = false), is not executed against the service, and
\* changes neither failureCount, successCount nor circuitState.
C17_OpenFailsFast ==
    [][(Requested /\ circuitState = "open" /\ tokens >= 1) =>
          /\ lastRequest'[1].blocked
          /\ ~lastRequest'[1].success
          /\ ~lastRequest'[1].rateLimited
          /\ stats'.blockedRequests = stats.blockedRequests + 1
          /\ stats'.successCount = stats.successCount
          /\ stats'.failureCount = stats.failureCount
          /\ failureCount' = failureCount
          /\ successCount' = successCount
          /\ circuitState' = circuitState]_vars

\* A request was blocked by the open circuit
C17_Witness ==
    /\ circuitState = "open"
    /\ lastRequest # NoRequest
    /\ lastRequest[1].blocked
    /\ stats.blockedRequests >= 2

\* C18: in state 'closed' the circuit opens exactly when the 5th
\* consecutive executed request fails -- fewer than 5 failures in a row
\* never open it, a successful request in 'closed' resets the count of
\* consecutive failures to 0, and failureCount is 0 once the circuit opened.
C18_OpensOnFifthFailure ==
    /\ [](/\ circuitState = "closed" => (failureCount = streak /\ streak < failureThreshold)
          /\ circuitState # "closed" => failureCount = 0)
    /\ [][circuitState = "closed" =>
            /\ circuitState' = "open" <=>
                   (Executed /\ ~lastRequest'[1].success /\ streak = failureThreshold - 1)
            /\ (Executed /\ lastRequest'[1].success) => failureCount' = 0
            /\ circuitState' \in {"closed", "open"}]_vars

\* The circuit opened for the second time, after a success had cut a streak
C18_Witness ==
    /\ circuitState = "open"
    /\ streak = failureThreshold
    /\ stats.failureCount > failureThreshold
    /\ stats.successCount > 0

\* C19: in state 'half-open' a single failed request trips the circuit back
\* to 'open' and resets successCount to 0; a request returns the circuit to
\* 'closed' exactly when it is the 3rd that succeeded in 'half-open' without
\* a failure in between (the only other way to 'closed' is Reset);
\* successCount is 0 in every state other than 'half-open'.
C19_HalfOpen ==
    /\ [](/\ circuitState # "half-open" => successCount = 0
          /\ circuitState = "half-open" => (successCount = trial /\ trial < successThreshold))
    /\ [][circuitState = "half-open" =>
            /\ (Executed /\ ~lastRequest'[1].success) =>
                   (circuitState' = "open" /\ successCount' = 0)
            /\ (Requested /\ circuitState' = "closed") <=>
                   (Executed /\ lastRequest'[1].success /\ trial = successThreshold - 1)
            /\ (~Requested /\ circuitState' # "half-open") =>
                   (circuitState' = "closed" /\ lastRequest' = NoRequest /\ tokens' = maxTokens)]_vars

\* The circuit closed again after three successes in half-open
C19_Witness ==
    /\ circuitState = "closed"
    /\ trial = successThreshold
    /\ lastRequest # NoRequest
    /\ lastRequest[1].success

(***************************************************************************)
(* The theme-color checker script                                          *)
(***************************************************************************)
\* A scanned file: below a scan directory, with a scanned extension, not on
\* the ignore list
ScannedFile(f) ==
    /\ \E i \in 1..Len(SCAN_DIRS) : f.dir[1] = SCAN_DIRS[i]
    /\ \E i \in 1..Len(EXTENSIONS) : f.ext = EXTENSIONS[i]
    /\ \A i \in 1..Len(IGNORE_FILES) : f.name # IGNORE_FILES[i]

\* The line matches a forbidden pattern
Forbidden(line) ==
    \E n \in 1..Len(FORBIDDEN_PATTERNS) : Exec(FORBIDDEN_PATTERNS[n], line) # << >>

\* Where the text stands after the first n tokens of a line that starts
\* in state start: in code, in a block (or JSX) comment, in a // comment
RECURSIVE After(_, _, _)
After(line, n, start) ==
    IF n = 0 THEN start
    ELSE LET s == After(line, n - 1, start)
             t == line[n]
         IN  CASE s = "code" /\ t.kind = "delim" /\ t.text \in {"/*", "{/*"} -> "block"
               [] s = "code" /\ t.kind = "delim" /\ t.text = "//" -> "slashes"
               [] s = "block" /\ t.kind = "delim" /\ t.text \in {"*/", "*/}"} -> "code"
               [] OTHER -> s

\* The state line i of lines starts in: a block comment runs over the end
\* of a line, a // comment ends there
RECURSIVE StartOf(_, _)
StartOf(lines, i) ==
    IF i = 1 THEN "code"
    ELSE IF After(lines[i - 1], Len(lines[i - 1]), StartOf(lines, i - 1)) = "block"
         THEN "block" ELSE "code"

\* Line i is a comment line: none of its words stands outside a comment
CommentLine(lines, i) ==
    \A k \in 1..Len(lines[i]) :
        lines[i][k].kind = "word" =>
            After(lines[i], k - 1, StartOf(lines, i)) # "code"

\* C20: the script exits with status 1 if and only if at least one scanned
\* file contains a non-comment line that matches a forbidden pattern, and
\* with status 0 otherwise.
C20_ExitStatus ==
    exitStatus # NotRun =>
        /\ exitStatus \in {0, 1}
        /\ exitStatus = 1 <=>
               \E f \in fs :
                   /\ ScannedFile(f)
                   /\ \E i \in 1..Len(f.lines) :
                          ~CommentLine(f.lines, i) /\ Forbidden(f.lines[i])

\* The same with the script's own test for a comment: the line, trimmed,
\* starts with //, with /* or with *
C20_ExitStatusByPrefix ==
    exitStatus # NotRun =>
        /\ exitStatus \in {0, 1}
        /\ exitStatus = 1 <=>
               \E f \in fs :
                   /\ ScannedFile(f)
                   /\ \E i \in 1..Len(f.lines) :
                          LET trimmed == TrimStart(f.lines[i])
                          IN  /\ ~(/\ trimmed # << >>
                                   /\ trimmed[1].kind = "delim"
                                   /\ trimmed[1].text \in {"//", "/*", "*", "*/"})
                              /\ Forbidden(f.lines[i])

C20_PrefixWitness ==
    /\ exitStatus = 1
    /\ \E f \in fs : f.name = "ThemeToggle.tsx" /\ checkFile(f) # << >>
    /\ \E f \in fs : f.dir = <<"src/components", "ui">> /\ f \in {x.file : x \in allIssues}

(***************************************************************************)
(* TwoPhaseCommit: the timer chains and Reset                              *)
(***************************************************************************)
\* The coordinator is idle, every participant is idle, no message is in flight
AllIdle ==
    /\ coordinatorState = "idle"
    /\ \A i \in 1..Len(participants) : participants[i].state = "idle"
    /\ messages = << >>

\* No run was started since the last Reset: every run in progress was
\* started before it
NoneStartedSinceReset == \A r \in 1..Len(runs) : runs[r].wasReset

\* The step is a call of startTransaction: a run is added
Started == Len(runs') > Len(runs)

\* C21: once reset has been invoked, the coordinator stays idle, every
\* participant stays idle and no message is in flight until startTransaction
\* is invoked again, also when reset is invoked while a run's timer chain is
\* in progress: from a state that is idle with no run started since the last
\* Reset, every step but startTransaction leads to an idle state.
C21_ResetHolds ==
    [][(AllIdle /\ NoneStartedSinceReset /\ ~Started) => AllIdle']_vars

\* C21, the consequence: at most one run is in progress
C21_OneRun == Len(runs) <= 1

\* At most one run in progress was started since the last Reset
C21_OneRunSinceReset ==
    \A q, r \in 1..Len(runs) :
        (~runs[q].wasReset /\ ~runs[r].wasReset) => q = r

\* Reset was clicked while a run was in progress, and nothing has moved yet
C21_ResetDuringRun == AllIdle /\ runs # << >> /\ NoneStartedSinceReset

====
